---- MODULE Spec2Model ----
(***************************************************************************)
(* Signal and confidence-scoring pipeline of the Trading-App repository.   *)
(*                                                                         *)
(* JavaScript arrays are modelled as functions over 0..n-1 so that every   *)
(* index in the model is the index of the source.  Numbers that the source *)
(* holds as decimal fractions are held as scaled integers:                 *)
(*   confidence and threshold   in tenths      (99.9 -> 999, 100 -> 1000)  *)
(*   score weights              in hundredths  (1.5  -> 150)               *)
(*   VSA weights and scores     in tenths      (2.6  -> 26)                *)
(*   timestamps                 in milliseconds, as in the source          *)
(***************************************************************************)
EXTENDS Integers, Sequences, FiniteSets, TLC

VARIABLES
    pc,          \* position of the running computation
    \* ---- buy-event scan (App.jsx, computed) ----
    confidence,  \* confidence[i], tenths
    visTs,       \* visRows[i].ts
    threshold,   \* master threshold, tenths
    cooldownMs,  \* buyWindowHours*60*60*1000
    scanI,       \* loop variable i of the buys loop
    buys,        \* emitted events, in emission order
    lastBuyTs,   \* timestamp of the last accepted event, NegInfinity before
    \* ---- scoreBar (engine/score.js and App.jsx) ----
    variant,     \* which of the two scoreBar sources runs
    ctx,         \* the scoring context at bar i, and the weights
    raw,         \* let raw
    maxRaw,      \* let maxRaw
    parts,       \* const parts = {}
    result,      \* the returned { confidence, parts }
    \* ---- resampleDaily (data/resample.js) and expandDaily ----
    rows,        \* the input rows
    resI,        \* loop variable i
    curKey,      \* UTC midnight of the open bucket
    cur,         \* o, h, l, c, v of the open bucket
    dayIndex,    \* index of the open bucket
    daily,       \* out: the closed buckets
    rowToDay,    \* the index map
    expanded,    \* expandDaily(daily closes, rowToDay)
    \* ---- vsaSignals (indicators/vsa.js, enriched suite) ----
    vsaIn,       \* open, high, low, close, volume and the window
    vsaI,        \* loop variable i
    vsaOut,      \* combined, score and the 8 component arrays
    \* ---- one call of an indicator function (indicators/math.js, daily.js) ----
    indIn,       \* the bars and the period the function is called with
    indOut,      \* the name of the function and the arrays it returned
    \* ---- aggregate4h (data/resample.js and App.jsx) ----
    aggVariant,  \* which of the three aggregate4h sources runs
    aggRows,     \* the input rows
    aggExtras,   \* the extras argument: series by key
    aggI,        \* loop variable i
    bucketKey,   \* key of the open bucket
    aggCur,      \* the open bucket, Null before the first one
    aggOut,      \* out: the closed buckets
    \* ---- score weights (App.jsx, setWeight) ----
    weights,     \* the weights state
    setCall,     \* key and value of the last setWeight call
    \* ---- SMA stack persistence (indicators/daily.js) ----
    stackIn,     \* dSMA7, dSMA30, dSMA90 of the daily closes
    stackI,      \* loop variable i
    run,         \* let run
    dSmaStack    \* the persistence flags

scanVars == <<confidence, visTs, threshold, cooldownMs, scanI, buys, lastBuyTs>>

scoreVars == <<variant, ctx, raw, maxRaw, parts, result>>

resVars == <<rows, resI, curKey, cur, dayIndex, daily, rowToDay, expanded>>

vsaVars == <<vsaIn, vsaI, vsaOut>>

indVars == <<indIn, indOut>>

aggVars == <<aggVariant, aggRows, aggExtras, aggI, bucketKey, aggCur, aggOut>>

weightVars == <<weights, setCall>>

stackVars == <<stackIn, stackI, run, dSmaStack>>

vars == <<pc, scanVars, scoreVars, resVars, vsaVars, indVars, aggVars,
          weightVars, stackVars>>

\* what each computation leaves alone
scanOthers == <<scoreVars, resVars, vsaVars, indVars, aggVars, weightVars, stackVars>>
scoreOthers == <<scanVars, resVars, vsaVars, indVars, aggVars, weightVars, stackVars>>
resOthers == <<scanVars, scoreVars, vsaVars, indVars, aggVars, weightVars, stackVars>>
vsaOthers == <<scanVars, scoreVars, resVars, indVars, aggVars, weightVars, stackVars>>
indOthers == <<scanVars, scoreVars, resVars, vsaVars, aggVars, weightVars, stackVars>>
aggOthers == <<scanVars, scoreVars, resVars, vsaVars, indVars, weightVars, stackVars>>
weightOthers == <<scanVars, scoreVars, resVars, vsaVars, indVars, aggVars, stackVars>>
stackOthers == <<scanVars, scoreVars, resVars, vsaVars, indVars, aggVars, weightVars>>

\* the variables a computation does not touch keep their idle values
ScanIdle ==
    /\ confidence = << >> /\ visTs = << >> /\ threshold = 0 /\ cooldownMs = 0
    /\ scanI = 0 /\ buys = << >> /\ lastBuyTs = 0

ScoreIdle ==
    /\ variant = "" /\ ctx = << >> /\ raw = 0 /\ maxRaw = 0
    /\ parts = << >> /\ result = << >>

ResIdle ==
    /\ rows = << >> /\ resI = 0 /\ curKey = 0 /\ cur = << >> /\ dayIndex = 0
    /\ daily = << >> /\ rowToDay = << >> /\ expanded = << >>

VsaIdle == vsaIn = << >> /\ vsaI = 0 /\ vsaOut = << >>

IndIdle == indIn = << >> /\ indOut = << >>

AggIdle ==
    /\ aggVariant = "" /\ aggRows = << >> /\ aggExtras = << >> /\ aggI = 0
    /\ bucketKey = 0
    /\ aggCur = << >> /\ aggOut = << >>

WeightIdle == weights = << >> /\ setCall = << >>

StackIdle == stackIn = << >> /\ stackI = 0 /\ run = 0 /\ dSmaStack = << >>

----------------------------------------------------------------------------
(* Array helpers *)

ArrLen(a) == Cardinality(DOMAIN a)

EmptyArr == [k \in {} |-> 0]

RECURSIVE SumTo(_, _)
SumTo(f, k) == IF k < 1 THEN 0 ELSE f[k] + SumTo(f, k - 1)

----------------------------------------------------------------------------
(* Buy-event scan: App.jsx, "Buys with cooldown (first cross-up)" *)

MaxBars == 6

MS_PER_HOUR == 60 * 60 * 1000

\* confidence values a scored bar can take: 0, a blended value, the blended
\* cap and (for the threshold) the values the slider can be set to
ConfValues == {0, 500, 999}
Thresholds == {500, 999}
BuyWindowHours == {24}
RowGaps == {6 * MS_PER_HOUR, 12 * MS_PER_HOUR}

\* lastBuyTs starts at -Infinity; every timestamp of the model is >= 0
NegInfinity == -1

\* variant of the cooldown test for a lastBuyTs that starts at 0
CooldownOk_fromZero(ts, last, cd) ==
    IF last = NegInfinity THEN ts >= cd ELSE ts - last >= cd

\* ts - lastBuyTs >= cooldownMs; ts - (-Infinity) is +Infinity
CooldownOk(ts, last, cd) ==
    IF last = NegInfinity THEN TRUE ELSE ts - last >= cd

\* variant of the cross-up test that does not look at the previous bar
cross_noPrev(conf, thr, i) == conf[i] >= thr

\* const cross = confidence[i]>=threshold && confidence[i-1]<threshold
cross(conf, thr, i) == conf[i] >= thr /\ conf[i - 1] < thr

ScanInit ==
    \E n \in 1..MaxBars :
      \E c \in [0..(n - 1) -> ConfValues], g \in [1..(n - 1) -> RowGaps],
         thr \in Thresholds, h \in BuyWindowHours :
        /\ confidence = c
        /\ visTs = [k \in 0..(n - 1) |-> SumTo(g, k)]
        /\ threshold = thr
        /\ cooldownMs = h * 60 * 60 * 1000
        /\ scanI = 1
        /\ buys = << >>
        /\ lastBuyTs = NegInfinity
        /\ pc = "scan"
        /\ ScoreIdle /\ ResIdle /\ VsaIdle
        /\ IndIdle /\ AggIdle /\ WeightIdle /\ StackIdle

\* variant of the accepting branch that forgets lastBuyTs = ts
BuyEmit_keepLast ==
    /\ pc = "scan"
    /\ scanI < ArrLen(confidence)
    /\ cross(confidence, threshold, scanI)
    /\ CooldownOk(visTs[scanI], lastBuyTs, cooldownMs)
    /\ buys' = Append(buys, [index |-> scanI, ts |-> visTs[scanI],
                             conf |-> confidence[scanI]])
    /\ scanI' = scanI + 1
    /\ UNCHANGED <<pc, confidence, visTs, threshold, cooldownMs, lastBuyTs, scanOthers>>

\* loop body, branch taken: buys.push({index:i, ts, conf}); lastBuyTs = ts
BuyEmit ==
    /\ pc = "scan"
    /\ scanI < ArrLen(confidence)
    /\ cross(confidence, threshold, scanI)
    /\ CooldownOk(visTs[scanI], lastBuyTs, cooldownMs)
    /\ buys' = Append(buys, [index |-> scanI, ts |-> visTs[scanI],
                             conf |-> confidence[scanI]])
    /\ lastBuyTs' = visTs[scanI]
    /\ scanI' = scanI + 1
    /\ UNCHANGED <<pc, confidence, visTs, threshold, cooldownMs, scanOthers>>

\* variant of the branch not taken in which a rejected candidate restarts
\* the cooldown
BuySkip_restart ==
    /\ pc = "scan"
    /\ scanI < ArrLen(confidence)
    /\ ~(cross(confidence, threshold, scanI)
         /\ CooldownOk(visTs[scanI], lastBuyTs, cooldownMs))
    /\ lastBuyTs' = IF cross(confidence, threshold, scanI)
                    THEN visTs[scanI] ELSE lastBuyTs
    /\ scanI' = scanI + 1
    /\ UNCHANGED <<pc, confidence, visTs, threshold, cooldownMs, buys, scanOthers>>

\* loop body, branch not taken: no cross-up, or inside the cooldown
BuySkip ==
    /\ pc = "scan"
    /\ scanI < ArrLen(confidence)
    /\ ~(cross(confidence, threshold, scanI)
         /\ CooldownOk(visTs[scanI], lastBuyTs, cooldownMs))
    /\ scanI' = scanI + 1
    /\ UNCHANGED <<pc, confidence, visTs, threshold, cooldownMs, buys, lastBuyTs,
                   scanOthers>>

\* loop exit: i = n
BuyDone ==
    /\ pc = "scan"
    /\ scanI >= ArrLen(confidence)
    /\ pc' = "scanned"
    /\ UNCHANGED <<scanVars, scanOthers>>

ScanNext == BuyEmit \/ BuySkip \/ BuyDone

SpecScan == ScanInit /\ [][ScanNext]_vars

----------------------------------------------------------------------------
(* Properties of the buy-event scan *)

ScanN == ArrLen(confidence)

Emitted(i) == \E k \in 1..Len(buys) : buys[k].index = i

\* a rising-edge candidate of the cross-up test
Candidate(i) == i \in 1..(ScanN - 1) /\ cross(confidence, threshold, i)

\* index of the maximum of a one-bump series
IsPeak(p) ==
    /\ p \in 0..(ScanN - 1)
    /\ \A k \in 0..(ScanN - 2) : k < p => confidence[k] < confidence[k + 1]
    /\ \A k \in 0..(ScanN - 2) : k >= p => confidence[k] > confidence[k + 1]

\* one bump: starts below the threshold, rises strictly to a maximum at or
\* above it, falls strictly back below it, all inside one buy window
IsBump ==
    /\ ScanN >= 3
    /\ \E p \in 0..(ScanN - 1) : IsPeak(p) /\ confidence[p] >= threshold
    /\ confidence[0] < threshold
    /\ confidence[ScanN - 1] < threshold
    /\ visTs[ScanN - 1] - visTs[0] <= cooldownMs

PeakIndex == CHOOSE p \in 0..(ScanN - 1) : IsPeak(p)

\* C1: scanning a one-bump confidence series emits exactly one
\* event, at the index of the bump's maximum.
C1_PeakOnlyEmission ==
    (pc = "scanned" /\ IsBump) =>
        (Len(buys) = 1 /\ buys[1].index = PeakIndex)

\* C2: no bar after an emitted event and within the window
\* duration of it has strictly greater confidence than the event's bar.
C2_LocalMaximum ==
    \A k \in 1..Len(buys) :
        \A j \in 0..(ScanN - 1) :
            (j > buys[k].index /\ visTs[j] <= buys[k].ts + cooldownMs)
                => confidence[j] <= confidence[buys[k].index]

\* C3 (as stated): of two rising-edge candidates closer than the cooldown,
\* the later one is never emitted.
C3_LaterCandidateNeverEmitted ==
    \A a, b \in 1..(ScanN - 1) :
        (a < b /\ Candidate(a) /\ Candidate(b)
           /\ visTs[b] - visTs[a] < cooldownMs)
            => ~Emitted(b)

\* C3 (amended): of two rising-edge candidates closer than the cooldown, the
\* later one is never emitted when the earlier one was emitted.
C3_CooldownEnforcement ==
    \A a, b \in 1..(ScanN - 1) :
        (a < b /\ Candidate(a) /\ Candidate(b)
           /\ visTs[b] - visTs[a] < cooldownMs /\ Emitted(a))
            => ~Emitted(b)

C3_Witness ==
    /\ pc = "scanned"
    /\ \E a, b \in 1..(ScanN - 1) :
        /\ a < b /\ Candidate(a) /\ Candidate(b)
        /\ visTs[b] - visTs[a] < cooldownMs
        /\ Emitted(a) /\ ~Emitted(b)

\* C4: every emitted event is at an index i >= 1 with confidence[i] at or
\* above the threshold and confidence[i-1] below it, and a series that never
\* drops below the threshold emits nothing.
C4_CrossUpRule ==
    /\ \A k \in 1..Len(buys) :
        /\ buys[k].index >= 1
        /\ confidence[buys[k].index] >= threshold
        /\ confidence[buys[k].index - 1] < threshold
    /\ (\A i \in 0..(ScanN - 1) : confidence[i] >= threshold) => buys = << >>

C4_Witness ==
    /\ pc = "scanned"
    /\ confidence[0] >= threshold
    /\ ~Emitted(0)
    /\ \E i \in 2..(ScanN - 1) : Emitted(i)

----------------------------------------------------------------------------
(* scoreBar: engine/score.js, and the copy in App.jsx *)

ABSOLUTE_CAP == 1000
\* variant in which the blended cap is not kept below the absolute cap
BLENDED_CAP_asAbsoluteCap == ABSOLUTE_CAP
BLENDED_CAP == 999

\* VSA activation constant used by the App.jsx copy, tenths
VSA_ACTIVATION == 26

\* the not-a-number sentinel; every defined value of the series modelled
\* with it is >= 0
NaN == -1
isFinite(x) == x # NaN

DEFAULT_WEIGHTS ==
    [bollinger |-> 100, macd |-> 100, vsa |-> 100, smaStack |-> 150,
     prevLowUp |-> 100, rsi10 |-> 150, rsi20 |-> 120, rsi30 |-> 100,
     piDeep |-> 200]

\* weight records the sliders can produce (every weight within [0, 5])
WeightConfigs ==
    { DEFAULT_WEIGHTS,
      [bollinger |-> 0, macd |-> 0, vsa |-> 0, smaStack |-> 0,
       prevLowUp |-> 0, rsi10 |-> 0, rsi20 |-> 0, rsi30 |-> 0, piDeep |-> 0],
      [bollinger |-> 0, macd |-> 0, vsa |-> 0, smaStack |-> 0,
       prevLowUp |-> 0, rsi10 |-> 500, rsi20 |-> 305, rsi30 |-> 5, piDeep |-> 0],
      [bollinger |-> 500, macd |-> 500, vsa |-> 500, smaStack |-> 500,
       prevLowUp |-> 500, rsi10 |-> 500, rsi20 |-> 500, rsi30 |-> 500,
       piDeep |-> 500] }

\* daily RSI values in tenths, around the three tier bounds
RsiValues == {NaN, 0, 100, 101, 200, 201, 300, 301, 1000}

\* composite VSA scores in tenths (undefined, below and at the activation)
VsaScoreValues == {NaN, 22, 26}

ScoreVariants == {"score.js", "App.jsx"}

\* a confidence is the fraction num/den of tenths, den > 0
Rat(n, d) == [num |-> n, den |-> d]
RatLe(a, b) == a.num * b.den <= b.num * a.den
RatEq(a, b) == a.num * b.den = b.num * a.den
RatMin(a, b) == IF RatLe(a, b) THEN a ELSE b

\* if (ctx.piBuy[i] || ctx.mvrvzBuy[i])
absoluteOverride_piOnly(c) == c.piBuy
absoluteOverride(c) == c.piBuy \/ c.mvrvzBuy

\* score.js: ctx.vsa[i] === 1
\* App.jsx:  hasStrength ? vsaStrength >= VSA_ACTIVATION : ctx.vsa[i] === 1
vsaActive(v, c) ==
    IF v = "App.jsx" /\ isFinite(c.vsaScore)
    THEN c.vsaScore >= VSA_ACTIVATION
    ELSE c.vsa = 1

\* parts[k] = v
SetPart(p, k, v) == [x \in (DOMAIN p) \cup {k} |-> IF x = k THEN v ELSE p[x]]

\* variant of add that counts the weight in maxRaw only when active
add_activeOnly(k, active, w) ==
    LET v == IF active THEN w ELSE 0 IN
    /\ raw' = raw + v
    /\ maxRaw' = maxRaw + v
    /\ parts' = SetPart(parts, k, v)

\* const add = (k, active, w) => { const v = active ? w : 0; raw += v;
\*                                 maxRaw += w; parts[k] = v; }
add(k, active, w) ==
    LET v == IF active THEN w ELSE 0 IN
    /\ raw' = raw + v
    /\ maxRaw' = maxRaw + w
    /\ parts' = SetPart(parts, k, v)

ScoreInit ==
    \E v \in ScoreVariants, w \in WeightConfigs, r \in RsiValues,
       vs \in VsaScoreValues, vc \in {0, 1},
       b \in [{"piBuy", "mvrvzBuy", "touchLower", "macdCross", "smaStack",
               "prevLowUp", "piDeep"} -> BOOLEAN] :
        /\ variant = v
        /\ ctx = [piBuy |-> b["piBuy"], mvrvzBuy |-> b["mvrvzBuy"],
                  touchLower |-> b["touchLower"], macdCross |-> b["macdCross"],
                  rsi |-> r, vsa |-> vc, vsaScore |-> vs,
                  smaStack |-> b["smaStack"], prevLowUp |-> b["prevLowUp"],
                  piDeep |-> b["piDeep"], weights |-> w]
        /\ raw = 0
        /\ maxRaw = 0
        /\ parts = << >>
        /\ result = << >>
        /\ pc = "scoreBar"
        /\ ScanIdle /\ ResIdle /\ VsaIdle
        /\ IndIdle /\ AggIdle /\ WeightIdle /\ StackIdle

\* return { confidence: ABSOLUTE_CAP, parts: null }
ScoreOverride ==
    /\ pc = "scoreBar"
    /\ absoluteOverride(ctx)
    /\ result' = [confidence |-> Rat(ABSOLUTE_CAP, 1), hasParts |-> FALSE,
                  parts |-> << >>]
    /\ pc' = "returned"
    /\ UNCHANGED <<variant, ctx, raw, maxRaw, parts, scoreOthers>>

AddBollinger ==
    /\ pc = "scoreBar"
    /\ ~absoluteOverride(ctx)
    /\ add("bollinger", ctx.touchLower, ctx.weights.bollinger)
    /\ pc' = "macd"
    /\ UNCHANGED <<variant, ctx, result, scoreOthers>>

AddMacd ==
    /\ pc = "macd"
    /\ add("macd", ctx.macdCross, ctx.weights.macd)
    /\ pc' = "rsi"
    /\ UNCHANGED <<variant, ctx, result, scoreOthers>>

\* variant of the RSI tiers written as three independent ifs
AddRsi_cumulative ==
    /\ pc = "rsi"
    /\ LET r == ctx.rsi
           t10 == IF isFinite(r) /\ r <= 100 THEN ctx.weights.rsi10 ELSE 0
           t20 == IF isFinite(r) /\ r <= 200 THEN ctx.weights.rsi20 ELSE 0
           t30 == IF isFinite(r) /\ r <= 300 THEN ctx.weights.rsi30 ELSE 0
       IN  /\ raw' = raw + t10 + t20 + t30
           /\ maxRaw' = maxRaw + t10 + t20 + t30
           /\ parts' = SetPart(parts, "rsi", t30)
    /\ pc' = "vsa"
    /\ UNCHANGED <<variant, ctx, result, scoreOthers>>

\* if (Number.isFinite(r)) { if (r<=10) .. else if (r<=20) .. else if (r<=30)
\* .. else parts["rsi"]=0 } else parts["rsi"]=0
AddRsi ==
    /\ pc = "rsi"
    /\ LET r == ctx.rsi IN
       IF isFinite(r) /\ r <= 100 THEN add("rsi", TRUE, ctx.weights.rsi10)
       ELSE IF isFinite(r) /\ r <= 200 THEN add("rsi", TRUE, ctx.weights.rsi20)
       ELSE IF isFinite(r) /\ r <= 300 THEN add("rsi", TRUE, ctx.weights.rsi30)
       ELSE /\ parts' = SetPart(parts, "rsi", 0)
            /\ UNCHANGED <<raw, maxRaw>>
    /\ pc' = "vsa"
    /\ UNCHANGED <<variant, ctx, result, scoreOthers>>

AddVsa ==
    /\ pc = "vsa"
    /\ add("vsa", vsaActive(variant, ctx), ctx.weights.vsa)
    /\ pc' = "smaStack"
    /\ UNCHANGED <<variant, ctx, result, scoreOthers>>

AddSmaStack ==
    /\ pc = "smaStack"
    /\ add("smaStack", ctx.smaStack, ctx.weights.smaStack)
    /\ pc' = "prevLowUp"
    /\ UNCHANGED <<variant, ctx, result, scoreOthers>>

AddPrevLowUp ==
    /\ pc = "prevLowUp"
    /\ add("prevLowUp", ctx.prevLowUp, ctx.weights.prevLowUp)
    /\ pc' = "piDeep"
    /\ UNCHANGED <<variant, ctx, result, scoreOthers>>

AddPiDeep ==
    /\ pc = "piDeep"
    /\ add("piDeep", ctx.piDeep, ctx.weights.piDeep)
    /\ pc' = "confidence"
    /\ UNCHANGED <<variant, ctx, result, scoreOthers>>

\* const confidence = maxRaw===0 ? 0
\*                  : Math.min(BLENDED_CAP, (raw/maxRaw)*BLENDED_CAP)
blended(r, m) ==
    IF m = 0 THEN Rat(0, 1)
    ELSE RatMin(Rat(BLENDED_CAP, 1), Rat(r * BLENDED_CAP, m))

ScoreReturn ==
    /\ pc = "confidence"
    /\ result' = [confidence |-> blended(raw, maxRaw), hasParts |-> TRUE,
                  parts |-> parts]
    /\ pc' = "returned"
    /\ UNCHANGED <<variant, ctx, raw, maxRaw, parts, scoreOthers>>

ScoreNext ==
    \/ ScoreOverride \/ AddBollinger \/ AddMacd \/ AddRsi \/ AddVsa
    \/ AddSmaStack \/ AddPrevLowUp \/ AddPiDeep \/ ScoreReturn

SpecScore == ScoreInit /\ [][ScoreNext]_vars

----------------------------------------------------------------------------
(* Properties of scoreBar *)

\* the weight of the first RSI tier the value satisfies, 0 when there is none
TierWeight(c) ==
    IF c.rsi # NaN /\ c.rsi <= 100 THEN c.weights.rsi10
    ELSE IF c.rsi # NaN /\ c.rsi <= 200 THEN c.weights.rsi20
    ELSE IF c.rsi # NaN /\ c.rsi <= 300 THEN c.weights.rsi30
    ELSE 0

TierMatched(c) == c.rsi # NaN /\ c.rsi <= 300

\* the VSA condition of the running source, written out
VsaHolds ==
    IF variant = "App.jsx" /\ ctx.vsaScore # NaN
    THEN ctx.vsaScore >= 26
    ELSE ctx.vsa = 1

Weighted(cond, w) == IF cond THEN w ELSE 0

\* the six components that are not the RSI band
OtherMax == ctx.weights.bollinger + ctx.weights.macd + ctx.weights.vsa
            + ctx.weights.smaStack + ctx.weights.prevLowUp + ctx.weights.piDeep

OtherRaw == Weighted(ctx.touchLower, ctx.weights.bollinger)
            + Weighted(ctx.macdCross, ctx.weights.macd)
            + Weighted(VsaHolds, ctx.weights.vsa)
            + Weighted(ctx.smaStack, ctx.weights.smaStack)
            + Weighted(ctx.prevLowUp, ctx.weights.prevLowUp)
            + Weighted(ctx.piDeep, ctx.weights.piDeep)

Blended == pc = "returned" /\ result.hasParts

\* C5: on a bar where piBuy or mvrvzBuy is true scoreBar returns confidence
\* exactly 100 and null parts, whatever the weights and the other signals.
C5_AbsoluteOverridePrecedence ==
    (pc = "returned" /\ (ctx.piBuy \/ ctx.mvrvzBuy)) =>
        /\ result.confidence = Rat(1000, 1)
        /\ ~result.hasParts

C5_Witness ==
    /\ pc = "returned"
    /\ ~ctx.piBuy /\ ctx.mvrvzBuy
    /\ ctx.touchLower /\ ctx.macdCross /\ ctx.smaStack /\ ctx.piDeep
    /\ ctx.weights.bollinger = 500
    /\ result.confidence = Rat(1000, 1) /\ ~result.hasParts

\* C6: without an absolute override the confidence is within [0, 99.9], and
\* is 0 when maxRaw is 0; the confidence is 100 exactly on override bars.
C6_BoundedBlendedConfidence ==
    pc = "returned" =>
        /\ ~(ctx.piBuy \/ ctx.mvrvzBuy) =>
              /\ RatLe(Rat(0, 1), result.confidence)
              /\ RatLe(result.confidence, Rat(999, 1))
              /\ (maxRaw = 0 => RatEq(result.confidence, Rat(0, 1)))
        /\ RatEq(result.confidence, Rat(1000, 1)) <=> (ctx.piBuy \/ ctx.mvrvzBuy)

C6_Witness ==
    /\ pc = "returned"
    /\ ~(ctx.piBuy \/ ctx.mvrvzBuy)
    /\ maxRaw > 0 /\ raw = maxRaw
    /\ RatEq(result.confidence, Rat(999, 1))

\* C7 (as stated): on a non-override bar every component, the RSI band
\* included, has a weight counted in maxRaw whether or not its condition
\* holds, and raw counts the weights of the conditions that hold.
C7_EveryComponentInMax ==
    Blended =>
        /\ raw = OtherRaw + TierWeight(ctx)
        /\ \E wr \in (IF TierMatched(ctx) THEN {TierWeight(ctx)}
                      ELSE {ctx.weights.rsi10, ctx.weights.rsi20,
                            ctx.weights.rsi30}) :
              maxRaw = OtherMax + wr

\* C7 (amended): on a non-override bar the six components other than the RSI
\* band have their weight counted in maxRaw whether or not their condition
\* holds; the RSI band counts the weight of the matched tier in raw and in
\* maxRaw, and counts nothing in either when no tier matches.
C7_MaxCountsMatchedTierOnly ==
    Blended =>
        /\ raw = OtherRaw + TierWeight(ctx)
        /\ maxRaw = OtherMax + TierWeight(ctx)

C7_Witness ==
    /\ Blended
    /\ ctx.weights = DEFAULT_WEIGHTS
    /\ ctx.rsi = 301
    /\ ~ctx.touchLower /\ ~ctx.macdCross /\ ctx.smaStack
    /\ raw = 150
    /\ maxRaw = 750

\* C8: the RSI contribution is the weight of the first tier the value
\* satisfies (<= 10, <= 20, <= 30) and 0 for a value above 30 or undefined;
\* raw holds that single contribution, never two tiers.
C8_RsiTiersExclusive ==
    ("rsi" \in DOMAIN parts) =>
        /\ parts["rsi"] = TierWeight(ctx)
        /\ Blended => raw - OtherRaw = parts["rsi"]

C8_Witness ==
    /\ Blended
    /\ ctx.rsi = 100
    /\ ctx.weights.rsi10 = 500 /\ ctx.weights.rsi20 = 305
    /\ parts["rsi"] = 500
    /\ raw = 500

----------------------------------------------------------------------------
(* resampleDaily: data/resample.js; expandDaily: indicators/daily.js *)

MaxRows == 4

MS_PER_DAY == 86400000

\* rows.push(x): the array with x at index length
Push(a, x) == [k \in 0..ArrLen(a) |-> IF k = ArrLen(a) THEN x ELSE a[k]]

\* new Array(n).fill(x)
Filled(n, x) == [k \in 0..(n - 1) |-> x]

\* reading past the end of an array
Undefined == -2

\* dayKey: Date.UTC(y, m, dd) of the UTC date of ms, i.e. UTC midnight
dayKey(ms) == (ms \div MS_PER_DAY) * MS_PER_DAY

\* OHLCV values of the rows; a volume may be missing
RowBars ==
    { [open |-> 2, high |-> 3, low |-> 1, close |-> 2, volume |-> 5],
      [open |-> 4, high |-> 6, low |-> 4, close |-> 5, volume |-> 0],
      [open |-> 3, high |-> 3, low |-> 3, close |-> 3, volume |-> NaN] }

\* first timestamp and spacing of the rows (the parsers sort by ts and keep
\* duplicates)
RowStarts == {0, 18 * MS_PER_HOUR}
RowSteps == {0, 6 * MS_PER_HOUR, 24 * MS_PER_HOUR, 48 * MS_PER_HOUR}

\* rowToDay.map((dIdx)=> arrDaily[dIdx])
expandDaily(arrDaily, map) ==
    [i \in DOMAIN map |->
        IF map[i] \in DOMAIN arrDaily THEN arrDaily[map[i]] ELSE Undefined]

ResInit ==
    \E n \in 0..MaxRows :
      \E b \in [0..(n - 1) -> RowBars], t0 \in RowStarts,
         g \in [1..(n - 1) -> RowSteps] :
        /\ rows = [k \in 0..(n - 1) |->
                     [ts |-> t0 + SumTo(g, k), open |-> b[k].open,
                      high |-> b[k].high, low |-> b[k].low,
                      close |-> b[k].close, volume |-> b[k].volume]]
        /\ resI = 0
        /\ curKey = 0
        /\ cur = << >>
        /\ dayIndex = 0
        /\ daily = << >>
        /\ rowToDay = << >>
        /\ expanded = << >>
        /\ pc = "resampleDaily"
        /\ ScanIdle /\ ScoreIdle /\ VsaIdle
        /\ IndIdle /\ AggIdle /\ WeightIdle /\ StackIdle

\* if (rows.length === 0) return { daily: [], rowToDay: [] }
ResEmpty ==
    /\ pc = "resampleDaily"
    /\ ArrLen(rows) = 0
    /\ pc' = "resampled"
    /\ UNCHANGED <<resVars, resOthers>>

\* rowToDay filled with 0; curKey, o, h, l, c from rows[0]; v = 0; dayIndex = 0
ResStart ==
    /\ pc = "resampleDaily"
    /\ ArrLen(rows) > 0
    /\ rowToDay' = Filled(ArrLen(rows), 0)
    /\ curKey' = dayKey(rows[0].ts)
    /\ cur' = [open |-> rows[0].open, high |-> rows[0].high, low |-> rows[0].low,
               close |-> rows[0].close, volume |-> 0]
    /\ dayIndex' = 0
    /\ resI' = 0
    /\ pc' = "resLoop"
    /\ UNCHANGED <<rows, daily, expanded, resOthers>>

\* out.push({ ts: curKey, open: o, high: h, low: l, close: c, volume: v })
Bucket(key, c) == [ts |-> key, open |-> c.open, high |-> c.high, low |-> c.low,
                   close |-> c.close, volume |-> c.volume]

\* a > b, a < b on numbers of the input: false if either is NaN
NumGt(a, b) == isFinite(a) /\ isFinite(b) /\ a > b
NumLt(a, b) == isFinite(a) /\ isFinite(b) /\ a < b

\* variant of the update that keeps the close of the bucket's first row
Update_keepClose(c, r) ==
    [open |-> c.open,
     high |-> IF NumGt(r.high, c.high) THEN r.high ELSE c.high,
     low |-> IF NumLt(r.low, c.low) THEN r.low ELSE c.low,
     close |-> c.close,
     volume |-> c.volume + (IF isFinite(r.volume) THEN r.volume ELSE 0)]

\* "update": extend the open bucket with row r;
\* if (r.high > h) h = r.high; if (r.low < l) l = r.low
Update(c, r) ==
    [open |-> c.open,
     high |-> IF NumGt(r.high, c.high) THEN r.high ELSE c.high,
     low |-> IF NumLt(r.low, c.low) THEN r.low ELSE c.low,
     close |-> r.close,
     volume |-> c.volume + (IF isFinite(r.volume) THEN r.volume ELSE 0)]

\* variant of the new-day branch that forgets dayIndex++
ResStepNewDay_noIncrement ==
    /\ pc = "resLoop"
    /\ resI < ArrLen(rows)
    /\ dayKey(rows[resI].ts) # curKey
    /\ LET r == rows[resI] IN
        /\ daily' = Push(daily, Bucket(curKey, cur))
        /\ curKey' = dayKey(r.ts)
        /\ dayIndex' = dayIndex
        /\ rowToDay' = [rowToDay EXCEPT ![resI] = dayIndex]
        /\ cur' = Update([open |-> r.open, high |-> r.high, low |-> r.low,
                          close |-> r.close, volume |-> 0], r)
    /\ resI' = resI + 1
    /\ UNCHANGED <<pc, rows, expanded, resOthers>>

\* loop body, k !== curKey: push the open bucket, open a new one, dayIndex++,
\* then map and update
ResStepNewDay ==
    /\ pc = "resLoop"
    /\ resI < ArrLen(rows)
    /\ dayKey(rows[resI].ts) # curKey
    /\ LET r == rows[resI] IN
        /\ daily' = Push(daily, Bucket(curKey, cur))
        /\ curKey' = dayKey(r.ts)
        /\ dayIndex' = dayIndex + 1
        /\ rowToDay' = [rowToDay EXCEPT ![resI] = dayIndex + 1]
        /\ cur' = Update([open |-> r.open, high |-> r.high, low |-> r.low,
                          close |-> r.close, volume |-> 0], r)
    /\ resI' = resI + 1
    /\ UNCHANGED <<pc, rows, expanded, resOthers>>

\* loop body, k === curKey: map and update
ResStepSameDay ==
    /\ pc = "resLoop"
    /\ resI < ArrLen(rows)
    /\ dayKey(rows[resI].ts) = curKey
    /\ rowToDay' = [rowToDay EXCEPT ![resI] = dayIndex]
    /\ cur' = Update(cur, rows[resI])
    /\ resI' = resI + 1
    /\ UNCHANGED <<pc, rows, curKey, dayIndex, daily, expanded, resOthers>>

\* after the loop: push(); return { daily: out, rowToDay }
ResFinish ==
    /\ pc = "resLoop"
    /\ resI >= ArrLen(rows)
    /\ daily' = Push(daily, Bucket(curKey, cur))
    /\ pc' = "resampled"
    /\ UNCHANGED <<rows, resI, curKey, cur, dayIndex, rowToDay, expanded, resOthers>>

\* expandDaily(daily.map(d => d.close), rowToDay)
ResExpand ==
    /\ pc = "resampled"
    /\ expanded' = expandDaily([k \in DOMAIN daily |-> daily[k].close], rowToDay)
    /\ pc' = "expanded"
    /\ UNCHANGED <<rows, resI, curKey, cur, dayIndex, daily, rowToDay, resOthers>>

ResNext ==
    \/ ResEmpty \/ ResStart \/ ResStepNewDay \/ ResStepSameDay \/ ResFinish
    \/ ResExpand

SpecResample == ResInit /\ [][ResNext]_vars

----------------------------------------------------------------------------
(* Properties of resampleDaily and expandDaily *)

RowsN == ArrLen(rows)

\* the bucket whose UTC day contains row i
BucketOf(i) ==
    CHOOSE k \in DOMAIN daily :
        /\ daily[k].ts <= rows[i].ts
        /\ rows[i].ts < daily[k].ts + 86400000

\* C10: for a non-empty ascending row sequence rowToDay has the length of the
\* rows, starts at 0, steps by 0 or 1, ends at daily.length - 1, and the
\* expansion of a daily series holds at row i the value of the bucket whose
\* UTC day contains row i's timestamp.
C10_MonotonicIndexMap ==
    (pc \in {"resampled", "expanded"} /\ RowsN > 0) =>
        /\ DOMAIN rowToDay = 0..(RowsN - 1)
        /\ rowToDay[0] = 0
        /\ \A i \in 0..(RowsN - 2) : rowToDay[i + 1] - rowToDay[i] \in {0, 1}
        /\ rowToDay[RowsN - 1] = ArrLen(daily) - 1
        /\ \A i \in 0..(RowsN - 1) :
            /\ rowToDay[i] \in DOMAIN daily
            /\ \E k \in DOMAIN daily :
                /\ daily[k].ts <= rows[i].ts
                /\ rows[i].ts < daily[k].ts + 86400000
            /\ rowToDay[i] = BucketOf(i)
        /\ pc = "expanded" =>
            /\ DOMAIN expanded = 0..(RowsN - 1)
            /\ \A i \in 0..(RowsN - 1) : expanded[i] = daily[BucketOf(i)].close

C10_Witness ==
    /\ pc = "expanded"
    /\ RowsN = 4
    /\ ArrLen(daily) = 3
    /\ rowToDay = (0 :> 0 @@ 1 :> 0 @@ 2 :> 1 @@ 3 :> 2)
    /\ daily[2].ts - daily[1].ts = 2 * 86400000
    /\ expanded[0] # expanded[2]

----------------------------------------------------------------------------
(* Indicator helpers used by vsaSignals: indicators/math.js *)

\* a computed number is the fraction num/den with den > 0; den = 0 is NaN
NaNr == [num |-> 0, den |-> 0]
isFiniteR(x) == x.den # 0

Abs(x) == IF x < 0 THEN -x ELSE x

\* The program computes in IEEE-754 doubles.  sma, ema and macdLine are
\* computed in doubles below; std, atr, rsi, slope and the ratios built on
\* them are computed in exact fractions, whose order agrees with that of the
\* doubles except where the exact values of a comparison are equal and a
\* double behind it is the outcome of rounded operations.  A fraction in
\* lowest terms with a power of two below the line is a double that the
\* operations producing it leave unrounded.
RECURSIVE GCD(_, _)
GCD(a, b) == IF b = 0 THEN a ELSE GCD(b, a % b)

\* the fraction n/d, d # 0, in lowest terms with a positive denominator
RatNorm(n, d) ==
    LET g == GCD(Abs(n), Abs(d))
        sgn == IF d < 0 THEN -1 ELSE 1
    IN  [num |-> sgn * (n \div g), den |-> sgn * (d \div g)]

RECURSIVE IsPow2(_)
IsPow2(n) == n = 1 \/ (n > 1 /\ n % 2 = 0 /\ IsPow2(n \div 2))

Dyadic(x) == isFiniteR(x) /\ IsPow2(RatNorm(x.num, x.den).den)

\* the exponent of the leading bit of d >= 1
RECURSIVE Log2(_)
Log2(d) == IF d <= 1 THEN 0 ELSE 1 + Log2(d \div 2)

RECURSIVE Pow2(_)
Pow2(k) == IF k <= 0 THEN 1 ELSE 2 * Pow2(k - 1)

\* atrVal * 0.3 with atrVal the double nearest to 10 * d / 3, d an integer:
\* the product is the double just below d exactly for these d, and d itself
\* for the others (round to nearest, ties to even, on 53 bits)
RoundsBelow(d) ==
    /\ d >= 1
    /\ 5 * d > 6 * Pow2(Log2(d))
    /\ d % 3 = (IF Log2(d) % 2 = 0 THEN 1 ELSE 2)

Max2(a, b) == IF a >= b THEN a ELSE b
Max3(a, b, c) == Max2(a, Max2(b, c))

----------------------------------------------------------------------------
(* IEEE-754 double arithmetic: round to nearest, ties to even *)

\* A computed number is NaN (NaNr), an integer of magnitude below 2^30
\* (num, den = 1), the double nearest to a quotient of integers (num / den),
\* or the double sign * mant * 2^exp with mant an odd natural below 2^53
\* given by its digits in base 2^15, the least significant first.  Every
\* double has one such form.  The exponent is not bounded: overflow to
\* Infinity and subnormal numbers are outside the model.
Limb == Pow2(15)

\* integers of magnitude below IntLimit are kept as integers
IntLimit == Pow2(30)

Dbl(s, m, e) == [den |-> 1, sign |-> s, mant |-> m, exp |-> e]

IsDbl(x) == "mant" \in DOMAIN x

IsInt(x) == ~IsDbl(x) /\ x.den = 1

\* a number of the input, as a computed number
ToRat(v) == IF isFinite(v) THEN Rat(v, 1) ELSE NaNr

ToRatArr(arr) == [i \in DOMAIN arr |-> ToRat(arr[i])]

\* naturals of any size: digits without a leading zero, << >> is 0
RECURSIVE BigNorm(_)
BigNorm(x) ==
    IF x = << >> THEN x
    ELSE IF x[Len(x)] = 0 THEN BigNorm(SubSeq(x, 1, Len(x) - 1)) ELSE x

RECURSIVE BigFromInt(_)
BigFromInt(n) == IF n = 0 THEN << >> ELSE <<n % Limb>> \o BigFromInt(n \div Limb)

RECURSIVE BigToInt(_)
BigToInt(x) == IF x = << >> THEN 0 ELSE Head(x) + Limb * BigToInt(Tail(x))

First(x) == IF x = << >> THEN 0 ELSE Head(x)
Rest(x) == IF x = << >> THEN x ELSE Tail(x)

RECURSIVE BigAddC(_, _, _)
BigAddC(x, y, c) ==
    IF x = << >> /\ y = << >> THEN (IF c = 0 THEN << >> ELSE <<c>>)
    ELSE <<(First(x) + First(y) + c) % Limb>>
         \o BigAddC(Rest(x), Rest(y), (First(x) + First(y) + c) \div Limb)

BigAdd(x, y) == BigAddC(x, y, 0)

\* x - y - b for x >= y + b
RECURSIVE BigSubB(_, _, _)
BigSubB(x, y, b) ==
    IF x = << >> THEN x
    ELSE IF Head(x) - First(y) - b < 0
         THEN <<Head(x) - First(y) - b + Limb>> \o BigSubB(Tail(x), Rest(y), 1)
         ELSE <<Head(x) - First(y) - b>> \o BigSubB(Tail(x), Rest(y), 0)

BigSub(x, y) == BigNorm(BigSubB(x, y, 0))

RECURSIVE BigCmpAt(_, _, _)
BigCmpAt(x, y, k) ==
    IF k = 0 THEN 0
    ELSE IF x[k] < y[k] THEN -1
    ELSE IF x[k] > y[k] THEN 1
    ELSE BigCmpAt(x, y, k - 1)

\* -1, 0 or 1 as x is below, equal to or above y
BigCmp(x, y) ==
    IF Len(x) < Len(y) THEN -1
    ELSE IF Len(x) > Len(y) THEN 1
    ELSE BigCmpAt(x, y, Len(x))

\* x * d + c for a digit d >= 1
RECURSIVE BigMulSmall(_, _, _)
BigMulSmall(x, d, c) ==
    IF x = << >> THEN (IF c = 0 THEN << >> ELSE <<c>>)
    ELSE <<(Head(x) * d + c) % Limb>>
         \o BigMulSmall(Tail(x), d, (Head(x) * d + c) \div Limb)

Shifted(x) == IF x = << >> THEN x ELSE <<0>> \o x

RECURSIVE BigMul(_, _)
BigMul(x, y) ==
    IF x = << >> \/ y = << >> THEN << >>
    ELSE BigAdd(IF Head(x) = 0 THEN << >> ELSE BigMulSmall(y, Head(x), 0),
                Shifted(BigMul(Tail(x), y)))

\* x * 2^k
BigShl(x, k) ==
    IF x = << >> THEN x
    ELSE [i \in 1..(k \div 15) |-> 0] \o BigMulSmall(x, Pow2(k % 15), 0)

\* quotient (digits, a leading zero possible) and remainder of x by a digit d
DivDigit(hi, x0, d) ==
    [q |-> <<(hi.r * Limb + x0) \div d>> \o hi.q, r |-> (hi.r * Limb + x0) % d]

RECURSIVE BigDivSmall(_, _)
BigDivSmall(x, d) ==
    IF x = << >> THEN [q |-> << >>, r |-> 0]
    ELSE DivDigit(BigDivSmall(Tail(x), d), Head(x), d)

\* x \div 2^k
BigShr(x, k) ==
    BigNorm(BigDivSmall(SubSeq(x, k \div 15 + 1, Len(x)), Pow2(k % 15)).q)

\* the number of bits of x
BitLen(x) ==
    IF x = << >> THEN 0 ELSE 15 * (Len(x) - 1) + Log2(x[Len(x)]) + 1

RECURSIVE TrailingZeros(_)
TrailingZeros(n) == IF n % 2 = 1 THEN 0 ELSE 1 + TrailingZeros(n \div 2)

\* the number of zero bits at the low end of x > 0
RECURSIVE BigTz(_)
BigTz(x) == IF Head(x) = 0 THEN 15 + BigTz(Tail(x)) ELSE TrailingZeros(Head(x))

\* m * 2^sh is the 53-bit value nearest to x, the even one of two at the
\* same distance
RoundUp(q, c) ==
    IF c > 0 \/ (c = 0 /\ Head(q) % 2 = 1) THEN BigAdd(q, <<1>>) ELSE q

RoundAt(x, sh, q) ==
    [m |-> RoundUp(q, BigCmp(BigSub(x, BigShl(q, sh)), BigShl(<<1>>, sh - 1))),
     sh |-> sh]

RoundShift(x, sh) == RoundAt(x, sh, BigShr(x, sh))

Round53(x) ==
    IF BitLen(x) <= 53 THEN [m |-> x, sh |-> 0]
    ELSE RoundShift(x, BitLen(x) - 53)

\* the double nearest to s * x * 2^e, in the form of a computed number
CanonOut(s, m, e) ==
    IF e >= 0 /\ BitLen(m) + e <= 30
    THEN Rat(s * BigToInt(m) * Pow2(e), 1)
    ELSE Dbl(s, m, e)

CanonStrip(s, m, e, tz) == CanonOut(s, BigShr(m, tz), e + tz)

CanonRounded(s, r, e) == CanonStrip(s, r.m, e + r.sh, BigTz(r.m))

Canon(s, x, e) ==
    IF x = << >> THEN Rat(0, 1) ELSE CanonRounded(s, Round53(x), e)

\* sign, digits and exponent of an exact value
Exact(s, m, e) == [sign |-> s, mant |-> m, exp |-> e]

\* the exact value p divided by the integer d, 1 <= d < 2^15, as a double:
\* the quotient to 57 bits or more, and a last bit for a remainder
DivOut(p, k, qr) ==
    Canon(p.sign,
          BigAdd(BigShl(BigNorm(qr.q), 1), IF qr.r = 0 THEN << >> ELSE <<1>>),
          p.exp - k - 1)

DivShifted(p, d, k) == DivOut(p, k, BigDivSmall(BigShl(p.mant, k), d))

DivParts(p, d) ==
    IF p.mant = << >> THEN Rat(0, 1)
    ELSE DivShifted(p, d, Max2(0, 58 + Log2(d) - BitLen(p.mant)))

\* the exact value of a finite computed number
IntParts(n) == Exact(IF n < 0 THEN -1 ELSE 1, BigFromInt(Abs(n)), 0)

CanonParts(y) ==
    IF IsDbl(y) THEN Exact(y.sign, y.mant, y.exp) ELSE IntParts(y.num)

Parts(x) ==
    IF IsDbl(x) \/ x.den = 1 THEN CanonParts(x)
    ELSE CanonParts(DivParts(IntParts(x.num), x.den))

\* the exact sum of two exact values
AddAligned(sp, mp, sq, mq, e, c) ==
    IF sp = sq THEN Exact(sp, BigAdd(mp, mq), e)
    ELSE IF c = 0 THEN Exact(1, << >>, 0)
    ELSE IF c > 0 THEN Exact(sp, BigSub(mp, mq), e)
    ELSE Exact(sq, BigSub(mq, mp), e)

AddAt(sp, mp, sq, mq, e) == AddAligned(sp, mp, sq, mq, e, BigCmp(mp, mq))

AddExp(p, q, e) ==
    AddAt(p.sign, BigShl(p.mant, p.exp - e), q.sign, BigShl(q.mant, q.exp - e), e)

PartsAdd(p, q) == AddExp(p, q, IF p.exp < q.exp THEN p.exp ELSE q.exp)

PartsNeg(p) == Exact(-p.sign, p.mant, p.exp)

\* an integer result as a computed number
IntNum(n) ==
    IF Abs(n) < IntLimit THEN Rat(n, 1)
    ELSE Canon(IF n < 0 THEN -1 ELSE 1, BigFromInt(Abs(n)), 0)

\* the double nearest to an exact value
CanonOf(p) == Canon(p.sign, p.mant, p.exp)

PartsMul(p, q) ==
    Canon(p.sign * q.sign, BigMul(p.mant, q.mant), p.exp + q.exp)

\* -1, 0 or 1 as an exact value is below, equal to or above 0
SignOf(p) == IF p.mant = << >> THEN 0 ELSE p.sign

\* a + b, a - b and a * b of the program
fAdd(a, b) ==
    IF ~isFiniteR(a) \/ ~isFiniteR(b) THEN NaNr
    ELSE IF IsInt(a) /\ IsInt(b) THEN IntNum(a.num + b.num)
    ELSE CanonOf(PartsAdd(Parts(a), Parts(b)))

fSub(a, b) ==
    IF ~isFiniteR(a) \/ ~isFiniteR(b) THEN NaNr
    ELSE IF IsInt(a) /\ IsInt(b) THEN IntNum(a.num - b.num)
    ELSE CanonOf(PartsAdd(Parts(a), PartsNeg(Parts(b))))

fMul(a, b) ==
    IF ~isFiniteR(a) \/ ~isFiniteR(b) THEN NaNr
    ELSE IF IsInt(a) /\ IsInt(b) /\ Abs(a.num) < Limb /\ Abs(b.num) < Limb
    THEN Rat(a.num * b.num, 1)
    ELSE PartsMul(Parts(a), Parts(b))

\* a / d of the program for an integer d, 1 <= d < 2^15; the quotient of an
\* integer a is kept as the fraction whose nearest double it is
Quot(a, d) ==
    IF ~isFiniteR(a) THEN NaNr
    ELSE IF IsInt(a) THEN Rat(a.num, d)
    ELSE DivParts(Parts(a), d)

\* -1, 0 or 1 as the double a is below, equal to or above the double b
fCmp(a, b) == SignOf(PartsAdd(Parts(a), PartsNeg(Parts(b))))

fLt(a, b) == isFiniteR(a) /\ isFiniteR(b) /\ fCmp(a, b) < 0
fGt(a, b) == fLt(b, a)
fLe(a, b) == isFiniteR(a) /\ isFiniteR(b) /\ fCmp(a, b) <= 0

\* a and b are the same number
NumSame(a, b) == isFiniteR(a) /\ isFiniteR(b) /\ fCmp(a, b) = 0

----------------------------------------------------------------------------
(* indicators/math.js: sma, std, atr *)

\* Number.isFinite(v) ? v : 0
OrZero(v) == IF isFinite(v) THEN v ELSE 0

\* Number.isFinite(v) ? v : 0 on a computed number
OrZeroR(v) == IF isFiniteR(v) THEN v ELSE Rat(0, 1)

\* one pass of the loop of sma on the running sum s, in doubles:
\* sum += arr[i]; if (i >= period) sum -= arr[i - period]
smaPass(arr, period, s, i) ==
    IF i >= period
    THEN fSub(fAdd(s, OrZeroR(arr[i])), OrZeroR(arr[i - period]))
    ELSE fAdd(s, OrZeroR(arr[i]))

\* the element of a set of one element; the set is computed before its
\* element is used
The(S) == CHOOSE v \in S : TRUE

\* the last of the sums so far, 0 before the loop
LastSum(sums) == IF sums = << >> THEN Rat(0, 1) ELSE sums[Len(sums)]

\* the running sums after each pass so far, then after the passes lo..hi
RECURSIVE smaRun(_, _, _, _, _)
smaRun(arr, period, sums, lo, hi) ==
    IF lo > hi THEN sums
    ELSE IF lo = hi
    THEN Append(sums, smaPass(arr, period, LastSum(sums), lo))
    ELSE The({smaRun(arr, period, left, (lo + hi) \div 2 + 1, hi) :
                left \in {smaRun(arr, period, sums, lo, (lo + hi) \div 2)}})

\* the running sum of sma after index i
smaSum(arr, period, i) == LastSum(smaRun(arr, period, << >>, 0, i))

\* out[i] = sum / period once i >= period - 1
smaOf(sums, period) ==
    [i \in 0..(Len(sums) - 1) |->
        IF period > 0 /\ i >= period - 1
        THEN Quot(sums[i + 1], period) ELSE NaNr]

\* variant of sma that returns only the positions with a full window
sma_dropWarmup(arr, period) ==
    IF period > 0
    THEN [i \in 0..(ArrLen(arr) - period) |->
            Quot(smaSum(arr, period, i + period - 1), period)]
    ELSE [i \in DOMAIN arr |-> NaNr]

\* sma: NaN-filled for period <= 0
sma(arr, period) ==
    smaOf(smaRun(arr, period, << >>, 0, ArrLen(arr) - 1), period)

\* s2 of std, times period^2: the sum over the finite v of the window of
\* (v - ma[i])^2 with ma[i] = s / period
RECURSIVE stdS2(_, _, _, _, _)
stdS2(arr, period, s, j, i) ==
    IF j > i THEN 0
    ELSE (IF isFinite(arr[j])
          THEN (period * arr[j] - s) * (period * arr[j] - s) ELSE 0)
         + stdS2(arr, period, s, j + 1, i)

\* std, squared (Math.sqrt is not taken): out[i]^2 = s2 / cnt
stdSquared(arr, period) ==
    [i \in DOMAIN arr |->
        IF period > 0 /\ i >= period - 1
        THEN LET s == smaSum(ToRatArr(arr), period, i).num
                 cnt == Cardinality({j \in (i - period + 1)..i : isFinite(arr[j])})
             IN  IF cnt > 0
                 THEN Rat(stdS2(arr, period, s, i - period + 1, i),
                          period * period * cnt)
                 ELSE NaNr
        ELSE NaNr]

\* the loop state of atr after index i; chain: prevAtr has come out of a
\* smoothing step that started from a rounded double, so that it is no
\* longer the double nearest to its exact value
RECURSIVE atrLoop(_, _, _, _, _)
atrLoop(high, low, close, period, i) ==
    IF i < 0
    THEN [prevClose |-> IF isFinite(close[0]) THEN close[0] ELSE NaN,
          running |-> 0, seeded |-> FALSE, prevAtr |-> NaNr, out |-> NaNr,
          chain |-> FALSE]
    ELSE
      LET st == atrLoop(high, low, close, period, i - 1)
          hi == high[i]
          lo == low[i]
          cl == IF isFinite(close[i]) THEN close[i] ELSE st.prevClose
      IN
      IF ~isFinite(hi) \/ ~isFinite(lo)
      THEN [st EXCEPT !.prevClose = IF isFinite(cl) THEN cl ELSE st.prevClose,
                      !.out = NaNr]
      ELSE
        LET trBase == hi - lo
            trHigh == IF isFinite(st.prevClose) THEN Abs(hi - st.prevClose) ELSE trBase
            trLow == IF isFinite(st.prevClose) THEN Abs(lo - st.prevClose) ELSE trBase
            tr == Max3(trBase, trHigh, trLow)
        IN
        IF ~st.seeded
        THEN LET o == Rat(st.running + tr, i + 1) IN
             [prevClose |-> cl, running |-> st.running + tr,
              seeded |-> (i + 1 >= period),
              prevAtr |-> IF i + 1 >= period THEN o ELSE st.prevAtr,
              out |-> o, chain |-> FALSE]
        ELSE LET a == IF isFiniteR(st.prevAtr)
                      THEN Rat(st.prevAtr.num * (period - 1) + tr * st.prevAtr.den,
                               st.prevAtr.den * period)
                      ELSE Rat(tr, 1)
             IN [prevClose |-> cl, running |-> st.running, seeded |-> TRUE,
                 prevAtr |-> a, out |-> a,
                 chain |-> st.chain \/ (isFiniteR(st.prevAtr)
                                          /\ ~Dyadic(st.prevAtr))]

atr(high, low, close, period) ==
    [i \in DOMAIN close |->
        IF period > 0 THEN atrLoop(high, low, close, period, i).out ELSE NaNr]

----------------------------------------------------------------------------
(* vsaSignals: indicators/vsa.js, enriched suite *)

MaxVsaBars == 4

ACTIVATION_SCORE == 26

WEIGHTS ==
    [stopping |-> 16, noSupply |-> 11, testBar |-> 14, shakeout |-> 22,
     climactic |-> 20, spring |-> 26, demand |-> 17, effortResult |-> 12]

PatternNames ==
    <<"stopping", "noSupply", "testBar", "shakeout", "climactic", "spring",
      "demand", "effortResult">>

\* lookback windows of the volume normalisation
VsaWindows == {1, 2}

\* the bars the series are built from; NaN marks a missing field
VsaBars ==
    { [open |-> 3, high |-> 6, low |-> 1, close |-> 4, volume |-> 3],
      [open |-> 5, high |-> 6, low |-> 1, close |-> 5, volume |-> 4],
      [open |-> 1, high |-> 5, low |-> 1, close |-> 2, volume |-> 0],
      [open |-> 6, high |-> 6, low |-> 1, close |-> 5, volume |-> 0],
      [open |-> 4, high |-> 4, low |-> 4, close |-> 4, volume |-> 8],
      [open |-> 2, high |-> 6, low |-> 1, close |-> 6, volume |-> 4],
      [open |-> NaN, high |-> 6, low |-> 2, close |-> 4, volume |-> 2],
      [open |-> NaN, high |-> 2, low |-> 2, close |-> 2, volume |-> 8],
      [open |-> 3, high |-> NaN, low |-> 3, close |-> NaN, volume |-> 1] }

\* a[i], undefined when i is not an index of a
At(a, i) == IF i \in DOMAIN a THEN a[i] ELSE NaN

\* Math.max(5, Math.round(window / 2))
atrPeriod(window) == Max2(5, (window + 1) \div 2)

\* volume[i] >= ma + (sd || 0) * k, with k^2 = k2n / k2d and sd given squared
GeMaSd(v, ma, sd2, k2n, k2d) ==
    /\ isFinite(v)
    /\ v * ma.den - ma.num >= 0
    /\ (isFiniteR(sd2) /\ sd2.num # 0) =>
          (v * ma.den - ma.num) * (v * ma.den - ma.num) * sd2.den * k2d
              >= k2n * sd2.num * ma.den * ma.den

\* volume[i] and ma + sd * k are equal as exact numbers, sd > 0
EqMaSd(v, ma, sd2, k2n, k2d) ==
    /\ isFinite(v) /\ isFiniteR(ma) /\ isFiniteR(sd2) /\ sd2.num # 0
    /\ v * ma.den - ma.num >= 0
    /\ (v * ma.den - ma.num) * (v * ma.den - ma.num) * sd2.den * k2d
          = k2n * sd2.num * ma.den * ma.den

\* variant of the continue tests that accepts a bar without range
Skipped_noRange(in, i) ==
    \/ ~isFinite(in.high[i]) \/ ~isFinite(in.low[i]) \/ ~isFinite(in.close[i])
    \/ ~isFinite(IF isFinite(in.open[i]) THEN in.open[i] ELSE in.close[i - 1])

\* the continue tests at the head of the loop body
Skipped(in, i) ==
    \/ ~isFinite(in.high[i]) \/ ~isFinite(in.low[i]) \/ ~isFinite(in.close[i])
    \/ in.high[i] - in.low[i] <= 0
    \/ ~isFinite(IF isFinite(in.open[i]) THEN in.open[i] ELSE in.close[i - 1])

\* const isDown = cl < refOpen
isDown(cl, refOpen) == cl < refOpen

\* variant of the up test that holds on every bar that moved
isUp_anyMove(cl, refOpen) == cl # refOpen

\* const isUp = cl > refOpen
isUp(cl, refOpen) == cl > refOpen

\* the comparisons of bar i whose exact values are equal while a double
\* behind them has been rounded more than once: hv and ultraHv when the mean
\* or the variance is not a dyadic fraction, veryWide and smallResult when
\* the atr comes from the smoothing of a rounded atr
VsaTiesOf(i, v, ma, sd2, st, rng, cl, prevClose) ==
    (IF EqMaSd(v, ma, sd2, 1, 4) /\ ~(Dyadic(ma) /\ Dyadic(sd2))
     THEN {<<"hv", i>>} ELSE {})
    \cup (IF EqMaSd(v, ma, sd2, 9, 4) /\ ~(Dyadic(ma) /\ Dyadic(sd2))
          THEN {<<"ultraHv", i>>} ELSE {})
    \cup (IF /\ isFiniteR(st.out) /\ st.chain
             /\ 10 * rng * st.out.den = 14 * st.out.num
          THEN {<<"veryWide", i>>} ELSE {})
    \cup (IF /\ isFiniteR(st.out) /\ st.chain /\ isFinite(prevClose)
             /\ 10 * Abs(cl - prevClose) * st.out.den = 3 * st.out.num
          THEN {<<"smallResult", i>>} ELSE {})

\* those comparisons of bar i given the mean, the variance and the atr
\* smoothing of the bar
TiesFrom(in, i, ma, sd2, st) ==
    VsaTiesOf(i, in.volume[i], ma, sd2, st,
              in.high[i] - in.low[i], in.close[i], in.close[i - 1])

\* those comparisons of bar i of the input in
VsaTiesAt(in, i) ==
    TiesFrom(in, i, sma(ToRatArr(in.volume), in.window)[i],
             stdSquared(in.volume, in.window)[i],
             atrLoop(in.high, in.low, in.close, atrPeriod(in.window), i))

\* every such comparison of the evaluated bars of the input
VsaTies(in) ==
    UNION {VsaTiesAt(in, i) : i \in {j \in 1..(ArrLen(in.close) - 1) :
                                        ~Skipped(in, j)}}

\* the four volume-intensity gates of bar i, with the trailing mean ma:
\* hv = Number.isFinite(ma) ? volume[i] >= (ma + (sd || 0) * 0.5) : false,
\* ultraHv with 1.5, lv = volume[i] <= ma * 0.75, ultraLv with 0.55; in.ties
\* holds the comparisons of VsaTies that come out true in doubles
GatesOf(i, v, ma, sd2, tied, ties) ==
    [ma |-> ma,
     hv |-> IF <<"hv", i>> \in tied THEN <<"hv", i>> \in ties
            ELSE isFiniteR(ma) /\ GeMaSd(v, ma, sd2, 1, 4),
     ultraHv |-> IF <<"ultraHv", i>> \in tied THEN <<"ultraHv", i>> \in ties
                 ELSE isFiniteR(ma) /\ GeMaSd(v, ma, sd2, 9, 4),
     lv |-> isFiniteR(ma) /\ isFinite(v) /\ 4 * v * ma.den <= 3 * ma.num,
     ultraLv |-> isFiniteR(ma) /\ isFinite(v)
                 /\ 20 * v * ma.den <= 11 * ma.num]

GatesFrom(in, i, ma, sd2, st) ==
    GatesOf(i, in.volume[i], ma, sd2, TiesFrom(in, i, ma, sd2, st), in.ties)

\* the gates of bar i of the input in
VolumeGates(in, i) ==
    GatesFrom(in, i, sma(ToRatArr(in.volume), in.window)[i],
              stdSquared(in.volume, in.window)[i],
              atrLoop(in.high, in.low, in.close, atrPeriod(in.window), i))

\* the 8 pattern tests of the loop body at an evaluated bar i >= 1, given
\* the gates g, the equal comparisons tied and atrVal = atr[i]
PatternsOf(in, i, g, tied, atrVal) ==
    LET hi == in.high[i]
        lo == in.low[i]
        cl == in.close[i]
        rng == hi - lo
        refOpen == IF isFinite(in.open[i]) THEN in.open[i] ELSE in.close[i - 1]
        body == Abs(cl - refOpen)
        prevClose == IF isFinite(in.close[i - 1]) THEN in.close[i - 1] ELSE NaN
        prevOpen == IF isFinite(in.open[i - 1]) THEN in.open[i - 1] ELSE prevClose
        prevHigh == IF isFinite(in.high[i - 1]) THEN in.high[i - 1] ELSE NaN
        prevLow == IF isFinite(in.low[i - 1]) THEN in.low[i - 1] ELSE NaN
        hasPrevRange == isFinite(prevHigh) /\ isFinite(prevLow)
        prevRange == prevHigh - prevLow
        \* (cl - lo) > 0.55 * rng
        longLower == 20 * (cl - lo) > 11 * rng
        \* body / rng < 0.35, body / rng < 0.2
        narrow == 20 * body < 7 * rng
        ultraNarrow == 5 * body < rng
        \* rng >= atrVal * 1.4
        veryWide == IF <<"veryWide", i>> \in tied
                    THEN <<"veryWide", i>> \in in.ties
                    ELSE IF isFiniteR(atrVal)
                    THEN 10 * rng * atrVal.den >= 14 * atrVal.num
                    ELSE rng > 0
        \* cl >= lo + 0.65 * rng
        closingStrong == 20 * (cl - lo) >= 13 * rng
        \* |cl - prevClose| <= atrVal * 0.3, or rng * 0.3 without an atr
        smallResult ==
            /\ isFinite(prevClose)
            /\ IF <<"smallResult", i>> \in tied
               THEN <<"smallResult", i>> \in in.ties
               ELSE IF isFiniteR(atrVal)
               THEN IF 10 * Abs(cl - prevClose) * atrVal.den = 3 * atrVal.num
                    THEN ~RoundsBelow(Abs(cl - prevClose))
                    ELSE 10 * Abs(cl - prevClose) * atrVal.den < 3 * atrVal.num
               ELSE 10 * Abs(cl - prevClose) <= 3 * rng
        downTrend ==
            /\ i >= 3
            /\ isFinite(in.close[i - 1]) /\ isFinite(in.close[i - 2])
            /\ isFinite(in.close[i - 3])
            /\ in.close[i - 1] <= in.close[i - 2]
            /\ in.close[i - 2] <= in.close[i - 3]
        low2 == At(in.low, i - 2)
        madeLowerLow ==
            /\ isFinite(prevLow) => lo < prevLow
            /\ isFinite(low2) => lo < low2
    IN
    [stopping |-> isDown(cl, refOpen) /\ g.hv /\ 2 * (cl - lo) >= rng,
     noSupply |-> /\ (isDown(cl, refOpen) \/ (isFinite(prevClose) /\ cl <= prevClose))
                  /\ (g.lv \/ g.ultraLv) /\ (narrow \/ ultraNarrow)
                  /\ 4 * (cl - lo) <= rng,
     testBar |-> /\ (narrow \/ ultraNarrow) /\ (g.lv \/ g.ultraLv) /\ closingStrong
                 /\ isFinite(prevOpen) /\ isFinite(prevClose)
                 /\ prevClose < prevOpen,
     shakeout |-> /\ (g.hv \/ g.ultraHv) /\ longLower /\ isUp(cl, refOpen)
                  /\ isFinite(prevClose) /\ cl > prevClose,
     climactic |-> g.ultraHv /\ isDown(cl, refOpen) /\ closingStrong /\ veryWide,
     spring |-> /\ (g.hv \/ g.ultraHv) /\ madeLowerLow /\ closingStrong
                /\ isFinite(prevClose) /\ cl > prevClose,
     demand |-> /\ (g.hv \/ g.ultraHv) /\ isUp(cl, refOpen) /\ closingStrong /\ downTrend
                /\ isFinite(prevClose) /\ cl > prevClose
                /\ (hasPrevRange => 10 * rng >= 9 * prevRange),
     effortResult |-> (g.hv \/ g.ultraHv) /\ isDown(cl, refOpen) /\ closingStrong /\ smallResult]

\* the pattern tests of bar i given volMA[i], volSD[i] squared, the atr
\* smoothing of the bar and atr[i]
PatternsFrom(in, i, ma, sd2, st, atrVal) ==
    PatternsOf(in, i, GatesFrom(in, i, ma, sd2, st),
               TiesFrom(in, i, ma, sd2, st), atrVal)

\* the pattern tests with the gates, the equal comparisons and the atr of bar i
Patterns(in, i) ==
    PatternsFrom(in, i, sma(ToRatArr(in.volume), in.window)[i],
                 stdSquared(in.volume, in.window)[i],
                 atrLoop(in.high, in.low, in.close, atrPeriod(in.window), i),
                 atr(in.high, in.low, in.close, atrPeriod(in.window))[i])

\* let sc = 0; if (sv) sc += WEIGHTS.stopping; ... in source order
RECURSIVE AccumulateScore(_, _)
AccumulateScore(f, k) ==
    IF k < 1 THEN 0
    ELSE AccumulateScore(f, k - 1)
         + (IF f[PatternNames[k]] THEN WEIGHTS[PatternNames[k]] ELSE 0)

\* variant of the activation test that needs the score to exceed the constant
Activated_strict(sc) == IF sc > ACTIVATION_SCORE THEN 1 ELSE 0

\* combined[i] = sc >= ACTIVATION_SCORE ? 1 : 0
Activated(sc) == IF sc >= ACTIVATION_SCORE THEN 1 ELSE 0

VsaInit ==
    \E n \in 0..MaxVsaBars :
      \E b \in [0..(n - 1) -> VsaBars], w \in VsaWindows :
        /\ \E in \in {[open |-> [k \in 0..(n - 1) |-> b[k].open],
                        high |-> [k \in 0..(n - 1) |-> b[k].high],
                        low |-> [k \in 0..(n - 1) |-> b[k].low],
                        close |-> [k \in 0..(n - 1) |-> b[k].close],
                        volume |-> [k \in 0..(n - 1) |-> b[k].volume],
                        window |-> w]} :
             \E t \in SUBSET VsaTies(in) : vsaIn = [ties |-> t] @@ in
        /\ vsaI = 0
        /\ vsaOut = << >>
        /\ pc = "vsaSignals"
        /\ ScanIdle /\ ScoreIdle /\ ResIdle
        /\ IndIdle /\ AggIdle /\ WeightIdle /\ StackIdle

\* the output arrays, each new Array(n).fill(0); i = 1
VsaStart ==
    /\ pc = "vsaSignals"
    /\ LET z == Filled(ArrLen(vsaIn.close), 0) IN
       vsaOut' = [combined |-> z, score |-> z, stopping |-> z, noSupply |-> z,
                  testBar |-> z, shakeout |-> z, climactic |-> z, spring |-> z,
                  demand |-> z, effortResult |-> z]
    /\ vsaI' = 1
    /\ pc' = "vsaLoop"
    /\ UNCHANGED <<vsaIn, vsaOthers>>

\* loop body ending in continue: nothing is written at i
VsaSkip ==
    /\ pc = "vsaLoop"
    /\ vsaI < ArrLen(vsaIn.close)
    /\ Skipped(vsaIn, vsaI)
    /\ vsaI' = vsaI + 1
    /\ UNCHANGED <<pc, vsaIn, vsaOut, vsaOthers>>

\* loop body of an evaluated bar: flags, score[i], combined[i]
VsaEval ==
    /\ pc = "vsaLoop"
    /\ vsaI < ArrLen(vsaIn.close)
    /\ ~Skipped(vsaIn, vsaI)
    /\ \E f \in {Patterns(vsaIn, vsaI)} :
         \E sc \in {AccumulateScore(f, Len(PatternNames))} :
           vsaOut' =
            [x \in DOMAIN vsaOut |->
                IF x = "score" THEN [vsaOut[x] EXCEPT ![vsaI] = sc]
                ELSE IF x = "combined"
                     THEN [vsaOut[x] EXCEPT ![vsaI] = Activated(sc)]
                ELSE [vsaOut[x] EXCEPT ![vsaI] = IF f[x] THEN 1 ELSE @]]
    /\ vsaI' = vsaI + 1
    /\ UNCHANGED <<pc, vsaIn, vsaOthers>>

\* loop exit and return
VsaReturn ==
    /\ pc = "vsaLoop"
    /\ vsaI >= ArrLen(vsaIn.close)
    /\ pc' = "vsaReturned"
    /\ UNCHANGED <<vsaVars, vsaOthers>>

VsaNext == VsaStart \/ VsaSkip \/ VsaEval \/ VsaReturn

SpecVsa == VsaInit /\ [][VsaNext]_vars

----------------------------------------------------------------------------
(* Properties of vsaSignals *)

VsaN == ArrLen(vsaIn.close)

\* the sum of the fixed weights (tenths) of the flags that are 1 at index i
ActiveWeight(i) ==
    16 * vsaOut.stopping[i] + 11 * vsaOut.noSupply[i] + 14 * vsaOut.testBar[i]
    + 22 * vsaOut.shakeout[i] + 20 * vsaOut.climactic[i] + 26 * vsaOut.spring[i]
    + 17 * vsaOut.demand[i] + 12 * vsaOut.effortResult[i]

FlagCount(i) ==
    vsaOut.stopping[i] + vsaOut.noSupply[i] + vsaOut.testBar[i]
    + vsaOut.shakeout[i] + vsaOut.climactic[i] + vsaOut.spring[i]
    + vsaOut.demand[i] + vsaOut.effortResult[i]

\* C9: at every index of the vsaSignals output, bar 0 and skipped bars
\* included, score is the sum of the weights of the flags that are 1 and
\* combined is 1 exactly when that sum is at least 2.6; a bar with shakeout
\* alone (2.2) is not activated and a bar with spring alone (2.6) is.
C9_VsaWeightActivationConsistency ==
    (pc \in {"vsaLoop", "vsaReturned"}) =>
        \A i \in 0..(VsaN - 1) :
            /\ vsaOut.score[i] = ActiveWeight(i)
            /\ vsaOut.combined[i] = 1 <=> ActiveWeight(i) >= 26
            /\ vsaOut.combined[i] \in {0, 1}
            /\ (FlagCount(i) = 1 /\ vsaOut.shakeout[i] = 1) => vsaOut.combined[i] = 0
            /\ (FlagCount(i) = 1 /\ vsaOut.spring[i] = 1) => vsaOut.combined[i] = 1

C9_Witness ==
    /\ pc = "vsaReturned"
    /\ \E i, j, k \in 1..(VsaN - 1) :
        /\ FlagCount(i) = 1 /\ vsaOut.shakeout[i] = 1 /\ vsaOut.combined[i] = 0
        /\ FlagCount(j) = 1 /\ vsaOut.spring[j] = 1 /\ vsaOut.combined[j] = 1
        /\ Skipped(vsaIn, k) /\ vsaOut.score[k] = 0 /\ vsaOut.combined[k] = 0

----------------------------------------------------------------------------
(* Exact arithmetic on computed numbers (fractions in lowest terms) *)

\* a + b, a - b, a * b; NaN if an operand is NaN
RatAdd(a, b) ==
    IF ~isFiniteR(a) \/ ~isFiniteR(b) THEN NaNr
    ELSE LET l == (a.den \div GCD(a.den, b.den)) * b.den
         IN  RatNorm(a.num * (l \div a.den) + b.num * (l \div b.den), l)

RatNeg(a) == IF isFiniteR(a) THEN Rat(-a.num, a.den) ELSE NaNr

RatSub(a, b) == RatAdd(a, RatNeg(b))

RatMul(a, b) ==
    IF ~isFiniteR(a) \/ ~isFiniteR(b) THEN NaNr
    ELSE LET x == RatNorm(a.num, b.den)
             y == RatNorm(b.num, a.den)
         IN  RatNorm(x.num * y.num, x.den * y.den)

\* a / b for b # 0; NaN if an operand is NaN
RatDiv(a, b) ==
    IF ~isFiniteR(a) \/ ~isFiniteR(b) THEN NaNr
    ELSE RatMul(a, RatNorm(b.den, b.num))

\* a < b, a > b on numbers; false if an operand is NaN
RatLt(a, b) == isFiniteR(a) /\ isFiniteR(b) /\ RatSub(a, b).num < 0
RatGt(a, b) == RatLt(b, a)

\* a and b are the same number
RatSame(a, b) == isFiniteR(a) /\ isFiniteR(b) /\ RatSub(a, b).num = 0

----------------------------------------------------------------------------
(* indicators/math.js: ema, rsi, macdLine, slope *)

\* k = 2 / (period + 1) and 1 - k of ema, in doubles
EmaK(period) == Rat(2, period + 1)
EmaRest(period) == fSub(Rat(1, 1), EmaK(period))

\* v * k + prev * (1 - k), in doubles
EmaStep(v, prev, period) ==
    fAdd(fMul(v, EmaK(period)), fMul(prev, EmaRest(period)))

\* prev = finite prev ? v * k + prev * (1 - k) : v
EmaNext(v, prev, period) ==
    IF isFiniteR(prev) THEN EmaStep(v, prev, period) ELSE v

\* one pass of the loop of ema on the input x: v = finite x or prev;
\* out[i] = the new prev
emaAppend(outs, x, prev, period) ==
    Append(outs, EmaNext(IF isFiniteR(x) THEN x ELSE prev, prev, period))

\* prev is NaN before the loop, then the last output
emaExtend(outs, x, period) ==
    emaAppend(outs, x, IF outs = << >> THEN NaNr ELSE outs[Len(outs)], period)

\* the outputs of ema so far, then those of the passes lo..hi
RECURSIVE emaRun(_, _, _, _, _)
emaRun(arr, period, outs, lo, hi) ==
    IF lo > hi THEN outs
    ELSE IF lo = hi THEN emaExtend(outs, arr[lo], period)
    ELSE The({emaRun(arr, period, left, (lo + hi) \div 2 + 1, hi) :
                left \in {emaRun(arr, period, outs, lo, (lo + hi) \div 2)}})

AsArray(outs) == [i \in 0..(Len(outs) - 1) |-> outs[i + 1]]

\* ema: NaN-filled for period <= 0
ema(arr, period) ==
    IF period > 0 THEN AsArray(emaRun(arr, period, << >>, 0, ArrLen(arr) - 1))
    ELSE [i \in DOMAIN arr |-> NaNr]

\* App.jsx ema: index of the first finite input, n if there is none
RECURSIVE emaAppSeed(_, _)
emaAppSeed(arr, i0) ==
    IF i0 < ArrLen(arr) /\ ~isFiniteR(arr[i0]) THEN emaAppSeed(arr, i0 + 1)
    ELSE i0

\* App.jsx ema, one pass: out[i0] = arr[i0], then v = finite arr[i] or
\* out[i-1]; out[i] = v*k + out[i-1]*(1-k)
emaAppStep(outs, x, period) ==
    Append(outs, IF outs = << >> THEN x
                 ELSE EmaStep(IF isFiniteR(x) THEN x ELSE outs[Len(outs)],
                              outs[Len(outs)], period))

\* App.jsx ema: the outputs from the seed on so far, then those of the
\* passes lo..hi
RECURSIVE emaAppOut(_, _, _, _, _)
emaAppOut(arr, period, outs, lo, hi) ==
    IF lo > hi THEN outs
    ELSE IF lo = hi THEN emaAppStep(outs, arr[lo], period)
    ELSE The({emaAppOut(arr, period, left, (lo + hi) \div 2 + 1, hi) :
                left \in {emaAppOut(arr, period, outs, lo, (lo + hi) \div 2)}})

\* NaN before the seed i0, then the outputs
FromSeed(arr, i0, outs) ==
    [i \in DOMAIN arr |-> IF i >= i0 THEN outs[i - i0 + 1] ELSE NaNr]

emaAppFrom(arr, period, i0) ==
    FromSeed(arr, i0, emaAppOut(arr, period, << >>, i0, ArrLen(arr) - 1))

\* App.jsx ema: a copy of arr for period <= 1, else NaN before the seed
emaApp(arr, period) ==
    IF period <= 1 THEN arr ELSE emaAppFrom(arr, period, emaAppSeed(arr, 0))

\* App.jsx sma, one pass on acc, in doubles: acc += arr[i]; if
\* (i >= period) acc -= arr[i - period], a NaN input making acc NaN for good
smaAppPass(arr, period, acc, i) ==
    IF i >= period THEN fSub(fAdd(acc, arr[i]), arr[i - period])
    ELSE fAdd(acc, arr[i])

\* App.jsx sma: acc after each pass so far, then after the passes lo..hi
RECURSIVE smaAppAcc(_, _, _, _, _)
smaAppAcc(arr, period, accs, lo, hi) ==
    IF lo > hi THEN accs
    ELSE IF lo = hi
    THEN Append(accs, smaAppPass(arr, period, LastSum(accs), lo))
    ELSE The({smaAppAcc(arr, period, left, (lo + hi) \div 2 + 1, hi) :
                left \in {smaAppAcc(arr, period, accs, lo, (lo + hi) \div 2)}})

\* App.jsx sma: a copy of arr for period <= 1, else acc / period once
\* i >= period - 1
smaApp(arr, period) ==
    IF period <= 1 THEN arr
    ELSE smaOf(smaAppAcc(arr, period, << >>, 0, ArrLen(arr) - 1), period)

\* arr[i] - arr[i - 1], NaN if either is
Change(arr, i) ==
    IF isFinite(arr[i]) /\ isFinite(arr[i - 1])
    THEN Rat(arr[i] - arr[i - 1], 1) ELSE NaNr

\* g = ch > 0 ? ch : 0 and l = ch < 0 ? -ch : 0
GainOf(ch) == IF isFiniteR(ch) /\ ch.num > 0 THEN ch ELSE Rat(0, 1)
LossOf(ch) == IF isFiniteR(ch) /\ ch.num < 0 THEN RatNeg(ch) ELSE Rat(0, 1)

\* gain and loss after the seeding loop has run up to index i
RECURSIVE rsiSeed(_, _)
rsiSeed(arr, i) ==
    IF i < 1 THEN [gain |-> Rat(0, 1), loss |-> Rat(0, 1)]
    ELSE LET s == rsiSeed(arr, i - 1)
             ch == Change(arr, i)
         IN  [gain |-> RatAdd(s.gain, GainOf(ch)),
              loss |-> RatAdd(s.loss, LossOf(ch))]

\* x / period as the division computes it: 0 / 0 is NaN
DivPeriod(x, period) ==
    IF period # 0 THEN RatDiv(x, Rat(period, 1)) ELSE NaNr

\* avgGain and avgLoss at index i >= period of the second loop
RECURSIVE rsiAvg(_, _, _)
rsiAvg(arr, period, i) ==
    IF i <= period
    THEN LET s == rsiSeed(arr, Max2(0, IF period < ArrLen(arr) - 1
                                       THEN period ELSE ArrLen(arr) - 1))
         IN  [avgGain |-> DivPeriod(s.gain, period),
              avgLoss |-> DivPeriod(s.loss, period)]
    ELSE LET a == rsiAvg(arr, period, i - 1)
             ch == Change(arr, i)
         IN  [avgGain |-> DivPeriod(RatAdd(RatMul(a.avgGain, Rat(period - 1, 1)),
                                           GainOf(ch)), period),
              avgLoss |-> DivPeriod(RatAdd(RatMul(a.avgLoss, Rat(period - 1, 1)),
                                           LossOf(ch)), period)]

\* 100 - 100 / (1 + rs)
RsiOf(rs) ==
    RatSub(Rat(100, 1), RatDiv(Rat(100, 1), RatAdd(Rat(1, 1), rs)))

\* rs = avgLoss === 0 ? Infinity : avgGain / avgLoss; 100 - 100 / (1 + rs),
\* where 100 / (1 + Infinity) is 0
rsiValue(a) ==
    IF isFiniteR(a.avgLoss) /\ a.avgLoss.num = 0
    THEN Rat(100, 1)
    ELSE RsiOf(RatDiv(a.avgGain, a.avgLoss))

\* rsi: NaN-filled for n < 2; out[i] is set for period <= i < n
rsi(arr, period) ==
    [i \in DOMAIN arr |->
        IF ArrLen(arr) >= 2 /\ i >= period
        THEN rsiValue(rsiAvg(arr, period, i)) ELSE NaNr]

\* App.jsx rsi: gain and loss after the seeding loop has run up to index i;
\* if (d >= 0) gain += d; else loss -= d, so a NaN delta goes to loss
RECURSIVE rsiAppSeed(_, _)
rsiAppSeed(arr, i) ==
    IF i < 1 THEN [gain |-> Rat(0, 1), loss |-> Rat(0, 1)]
    ELSE LET s == rsiAppSeed(arr, i - 1)
             d == Change(arr, i)
         IN  IF isFiniteR(d) /\ d.num >= 0
             THEN [gain |-> RatAdd(s.gain, d), loss |-> s.loss]
             ELSE [gain |-> s.gain, loss |-> RatSub(s.loss, d)]

\* App.jsx rsi: gain and loss at index i >= period
RECURSIVE rsiAppAvg(_, _, _)
rsiAppAvg(arr, period, i) ==
    IF i <= period
    THEN LET s == rsiAppSeed(arr, period)
         IN  [avgGain |-> DivPeriod(s.gain, period),
              avgLoss |-> DivPeriod(s.loss, period)]
    ELSE LET a == rsiAppAvg(arr, period, i - 1)
             d == Change(arr, i)
         IN  [avgGain |-> DivPeriod(RatAdd(RatMul(a.avgGain, Rat(period - 1, 1)),
                                           GainOf(d)), period),
              avgLoss |-> DivPeriod(RatAdd(RatMul(a.avgLoss, Rat(period - 1, 1)),
                                           LossOf(d)), period)]

\* App.jsx rsi: rs = loss === 0 ? 100 : gain / loss; 100 - 100 / (1 + rs)
rsiAppValue(a) ==
    IF isFiniteR(a.avgLoss) /\ a.avgLoss.num = 0
    THEN RsiOf(Rat(100, 1))
    ELSE RsiOf(RatDiv(a.avgGain, a.avgLoss))

\* App.jsx rsi: NaN-filled for n < period + 1 or period < 2
rsiApp(arr, period) ==
    [i \in DOMAIN arr |->
        IF ArrLen(arr) >= period + 1 /\ period >= 2 /\ i >= period
        THEN rsiAppValue(rsiAppAvg(arr, period, i)) ELSE NaNr]

\* variant of the cross whose prior bar must be at or above the signal
MacdCross_priorAbove(macd, signal) ==
    [i \in DOMAIN macd |->
        /\ i > 0 /\ isFiniteR(macd[i]) /\ isFiniteR(signal[i])
        /\ isFiniteR(macd[i - 1]) /\ isFiniteR(signal[i - 1])
        /\ fGt(macd[i], signal[i])
        /\ ~fLt(macd[i - 1], signal[i - 1])]

\* variant of the bullish cross that does not look at the bar before
MacdCross_noPrior(macd, signal) ==
    [i \in DOMAIN macd |->
        /\ i > 0 /\ isFiniteR(macd[i]) /\ isFiniteR(signal[i])
        /\ isFiniteR(macd[i - 1]) /\ isFiniteR(signal[i - 1])
        /\ fGt(macd[i], signal[i])]

\* dMACDcross: i > 0, the four values finite, m > dMACDsig[i] and
\* dMACD[i-1] <= dMACDsig[i-1], compared as doubles
MacdCross(macd, signal) ==
    [i \in DOMAIN macd |->
        /\ i > 0 /\ isFiniteR(macd[i]) /\ isFiniteR(signal[i])
        /\ isFiniteR(macd[i - 1]) /\ isFiniteR(signal[i - 1])
        /\ fGt(macd[i], signal[i])
        /\ fLe(macd[i - 1], signal[i - 1])]

\* macd = fast ema - slow ema where both are finite
macdOf(macdFast, macdSlow) ==
    [i \in DOMAIN macdFast |->
        IF isFiniteR(macdFast[i]) /\ isFiniteR(macdSlow[i])
        THEN fSub(macdFast[i], macdSlow[i]) ELSE NaNr]

\* signal = ema of macd
WithSignal(macd, signal) == [macd |-> macd, signal |-> ema(macd, signal)]

macdLine(arr, fast, slow, signal) ==
    WithSignal(macdOf(ema(arr, fast), ema(arr, slow)), signal)

\* the sums of the inner loop of slope over j..i, x counting from x0; a
\* non-finite y is passed over
RECURSIVE slopeSums(_, _, _, _)
slopeSums(arr, j, i, x) ==
    IF j > i
    THEN [sx |-> Rat(0, 1), sy |-> Rat(0, 1), sxx |-> Rat(0, 1),
          sxy |-> Rat(0, 1), cnt |-> 0]
    ELSE LET r == slopeSums(arr, j + 1, i, x + 1)
             y == arr[j]
         IN  IF ~isFiniteR(y) THEN r
             ELSE [sx |-> RatAdd(r.sx, Rat(x, 1)),
                   sy |-> RatAdd(r.sy, y),
                   sxx |-> RatAdd(r.sxx, Rat(x * x, 1)),
                   sxy |-> RatAdd(r.sxy, RatMul(Rat(x, 1), y)),
                   cnt |-> r.cnt + 1]

\* slope: least-squares slope over the window ending at i
slope(arr, window) ==
    [i \in DOMAIN arr |->
        IF window > 1 /\ i >= window - 1
        THEN LET q == slopeSums(arr, i - window + 1, i, 0)
                 c == Rat(q.cnt, 1)
                 denom == RatSub(RatMul(c, q.sxx), RatMul(q.sx, q.sx))
             IN  IF q.cnt >= 2 /\ denom.num # 0
                 THEN RatDiv(RatSub(RatMul(c, q.sxy), RatMul(q.sx, q.sy)), denom)
                 ELSE NaNr
        ELSE NaNr]

----------------------------------------------------------------------------
(* indicators/vsa.js: everything vsaSignals returns *)

\* a quotient x / sqrt(q) or a difference m - k * sqrt(q), kept unevaluated
Surd(kind, x, q) == [den |-> 1, kind |-> kind, of |-> x, sdSquared |-> q]

\* volumeZ[i] of an evaluated bar: (v - ma) / sd for a finite sd > 0, else
\* v / ma - 1 for a finite ma # 0, else 0; a non-finite z is stored as 0
VolumeZ(v, ma, sd2) ==
    IF isFiniteR(ma) /\ isFiniteR(sd2) /\ sd2.num > 0
    THEN IF isFinite(v) THEN Surd("quotient", RatSub(ToRat(v), ma), sd2)
         ELSE Rat(0, 1)
    ELSE IF isFiniteR(ma) /\ ma.num # 0 /\ isFinite(v)
         THEN RatSub(RatDiv(ToRat(v), ma), Rat(1, 1))
         ELSE Rat(0, 1)

\* the object vsaSignals returns, components and context flattened, given
\* the pattern tests pats[i] and the score sc[i] of every evaluated bar
vsaReturn(in, pats, sc, volMA, volSD, atrArr) ==
    [combined |-> [i \in DOMAIN in.close |->
                      IF i \in DOMAIN pats THEN Activated(sc[i]) ELSE 0],
     score |-> [i \in DOMAIN in.close |->
                   IF i \in DOMAIN pats THEN sc[i] ELSE 0],
     stopping |-> [i \in DOMAIN in.close |->
                      IF i \in DOMAIN pats /\ pats[i].stopping THEN 1 ELSE 0],
     noSupply |-> [i \in DOMAIN in.close |->
                      IF i \in DOMAIN pats /\ pats[i].noSupply THEN 1 ELSE 0],
     testBar |-> [i \in DOMAIN in.close |->
                     IF i \in DOMAIN pats /\ pats[i].testBar THEN 1 ELSE 0],
     shakeout |-> [i \in DOMAIN in.close |->
                      IF i \in DOMAIN pats /\ pats[i].shakeout THEN 1 ELSE 0],
     climactic |-> [i \in DOMAIN in.close |->
                       IF i \in DOMAIN pats /\ pats[i].climactic THEN 1 ELSE 0],
     spring |-> [i \in DOMAIN in.close |->
                    IF i \in DOMAIN pats /\ pats[i].spring THEN 1 ELSE 0],
     demand |-> [i \in DOMAIN in.close |->
                    IF i \in DOMAIN pats /\ pats[i].demand THEN 1 ELSE 0],
     effortResult |-> [i \in DOMAIN in.close |->
                          IF i \in DOMAIN pats /\ pats[i].effortResult
                          THEN 1 ELSE 0],
     volumeMA |-> volMA,
     volumeSD |-> volSD,
     volumeZ |-> [i \in DOMAIN in.close |->
                    IF i \in DOMAIN pats
                    THEN VolumeZ(in.volume[i], volMA[i], volSD[i])
                    ELSE Rat(0, 1)],
     atr |-> atrArr]

\* the scores of the evaluated bars: let sc = 0; if (sv) sc += ...
vsaScored(in, pats, volMA, volSD, atrArr) ==
    vsaReturn(in, pats,
              [i \in DOMAIN pats |-> AccumulateScore(pats[i], Len(PatternNames))],
              volMA, volSD, atrArr)

\* the loop over the bars i >= 1 that are not skipped
vsaBars(in, volMA, volSD, atrArr) ==
    vsaScored(in,
              [i \in {j \in DOMAIN in.close : j >= 1 /\ ~Skipped(in, j)} |->
                  PatternsFrom(in, i, volMA[i], volSD[i],
                               atrLoop(in.high, in.low, in.close,
                                       atrPeriod(in.window), i),
                               atrArr[i])],
              volMA, volSD, atrArr)

\* vsaSignals on its input in: volMA, volSD and atr, then the loop
vsaOn(in) ==
    vsaBars(in, sma(ToRatArr(in.volume), in.window),
            stdSquared(in.volume, in.window),
            atr(in.high, in.low, in.close, atrPeriod(in.window)))

\* vsaSignals; ties are the comparisons of VsaTies that come out true in
\* doubles
vsaSignals(open, high, low, close, volume, window, ties) ==
    vsaOn([open |-> open, high |-> high, low |-> low, close |-> close,
           volume |-> volume, window |-> window, ties |-> ties])

----------------------------------------------------------------------------
(* indicators/daily.js: computeDailyIndicators *)

Infinity == [num |-> 1, den |-> 0]

\* run of the persistence loop after index i
RECURSIVE runAfter(_, _)
runAfter(condToday, i) ==
    IF i < 0 THEN 0
    ELSE IF condToday[i] THEN runAfter(condToday, i - 1) + 1 ELSE 0

\* m of the rolling-low loop over j..i: the least finite low, else Infinity
RECURSIVE rollMin(_, _, _)
rollMin(dLow, j, i) ==
    IF j > i THEN Infinity
    ELSE LET m == rollMin(dLow, j + 1, i) IN
         IF isFinite(dLow[j]) /\ (~isFiniteR(m) \/ dLow[j] < m.num)
         THEN Rat(dLow[j], 1) ELSE m

\* slope90 > 0 with an exact slope of 0 on a window of dSMA90 holding a value
\* that is not a dyadic fraction: the sums of slope are rounded
Up90TiesOf(dSMA90, slope90) ==
    {<<"up90", i>> : i \in
       {j \in DOMAIN dSMA90 :
          /\ isFiniteR(slope90[j]) /\ slope90[j].num = 0
          /\ \E k \in (j - 9)..j :
                isFiniteR(dSMA90[k]) /\ ~Dyadic(dSMA90[k])}}

Up90TiesFrom(dSMA90) == Up90TiesOf(dSMA90, slope(dSMA90, 10))

Up90Ties(dailyBars) ==
    Up90TiesFrom(sma([i \in DOMAIN dailyBars |-> ToRat(dailyBars[i].close)], 90))

\* v <= 0.30 with an exact PI ratio of 3/10, unless both averages are dyadic
\* fractions (the ratio is then the double nearest to 3/10, which is 0.30)
PiBuyTiesOf(dSMA111, dSMA350) ==
    {<<"piBuy", i>> : i \in
       {j \in DOMAIN dSMA111 :
          /\ isFiniteR(dSMA111[j]) /\ isFiniteR(dSMA350[j])
          /\ dSMA350[j].num # 0
          /\ RatSame(RatDiv(dSMA111[j], RatMul(Rat(2, 1), dSMA350[j])),
                   Rat(3, 10))
          /\ ~(Dyadic(dSMA111[j]) /\ Dyadic(dSMA350[j]))}}

PiBuyTies(dailyBars) ==
    PiBuyTiesOf(sma([i \in DOMAIN dailyBars |-> ToRat(dailyBars[i].close)], 111),
                sma([i \in DOMAIN dailyBars |-> ToRat(dailyBars[i].close)], 350))

\* the comparisons of computeDailyIndicators whose exact values are equal
\* while a double behind them has been rounded more than once
DailyTies(dailyBars) == Up90Ties(dailyBars) \cup PiBuyTies(dailyBars)

\* dPiRatio[i] = dSMA111[i] / (2 * dSMA350[i]) for finite averages and
\* dSMA350[i] # 0, else NaN
PiRatio(dSMA111, dSMA350) ==
    [i \in DOMAIN dSMA111 |->
        IF isFiniteR(dSMA111[i]) /\ isFiniteR(dSMA350[i])
           /\ dSMA350[i].num # 0
        THEN RatDiv(dSMA111[i], RatMul(Rat(2, 1), dSMA350[i]))
        ELSE NaNr]

\* dRollLow[i]: the least finite low of the 30 days ending at i
RollLow(dLow) ==
    [i \in DOMAIN dLow |-> IF i >= 29 THEN rollMin(dLow, i - 29, i) ELSE NaNr]

\* what computeDailyIndicators returns, given the arrays it computes first
DailyOut(dClose, dLow, mvrvz, ties, dSMA7, dSMA30, dSMA90, dSMA111, dSMA350, dPiRatio, dBBma, dBBsd, m, dRollLow, slope90) ==
    [dClose |-> dClose, dLow |-> dLow,
     dSMA7 |-> dSMA7, dSMA30 |-> dSMA30, dSMA90 |-> dSMA90,
     dSMA111 |-> dSMA111, dSMA350 |-> dSMA350,
     dPiRatio |-> dPiRatio,
     dPiBuy |-> [i \in DOMAIN dClose |->
                   IF <<"piBuy", i>> \in PiBuyTiesOf(dSMA111, dSMA350)
                   THEN <<"piBuy", i>> \in ties
                   ELSE isFiniteR(dPiRatio[i])
                        /\ ~RatGt(dPiRatio[i], Rat(3, 10))],
     rMvrvBuy |-> [i \in DOMAIN mvrvz |->
                     mvrvz[i] # Undefined /\ mvrvz[i] <= 0],
     dBBlower |-> [i \in DOMAIN dClose |->
                     IF isFiniteR(dBBma[i]) /\ isFiniteR(dBBsd[i])
                     THEN Surd("lower", dBBma[i], dBBsd[i]) ELSE NaNr],
     dMACD |-> m.macd, dMACDsig |-> m.signal,
     dMACDcross |-> MacdCross(m.macd, m.signal),
     dRSI |-> rsi(dClose, 14),
     dSmaStack |->
        [i \in DOMAIN dClose |->
            runAfter([k \in DOMAIN dClose |->
                        /\ isFiniteR(dSMA30[k]) /\ isFiniteR(dSMA90[k])
                        /\ isFiniteR(dSMA7[k])
                        /\ RatGt(dSMA30[k], dSMA90[k])
                        /\ RatGt(dSMA7[k], dSMA30[k])], i) >= 5],
     dPrev30LowUp |->
        [i \in DOMAIN dClose |->
            /\ i > 0 /\ isFiniteR(dRollLow[i - 1]) /\ isFinite(dLow[i])
            /\ dLow[i] <= dRollLow[i - 1].num
            /\ IF <<"up90", i>> \in Up90TiesOf(dSMA90, slope90)
               THEN <<"up90", i>> \in ties
               ELSE isFiniteR(slope90[i]) /\ slope90[i].num > 0]]

\* the arrays derived from the averages: dPiRatio, dRollLow, slope90
DailyWith(dClose, dLow, mvrvz, ties, dSMA7, dSMA30, dSMA90, dSMA111, dSMA350, dBBma, dBBsd, m) ==
    DailyOut(dClose, dLow, mvrvz, ties, dSMA7, dSMA30, dSMA90, dSMA111, dSMA350,
             PiRatio(dSMA111, dSMA350), dBBma, dBBsd, m, RollLow(dLow),
             slope(dSMA90, 10))

\* the averages, the band and the MACD of the daily closes c
DailyFrom(dClose, dLow, mvrvz, ties, c) ==
    DailyWith(dClose, dLow, mvrvz, ties, sma(c, 7), sma(c, 30), sma(c, 90),
              sma(c, 111), sma(c, 350), sma(c, 20), stdSquared(dClose, 20),
              macdLine(c, 12, 26, 9))

\* computeDailyIndicators(daily, rows), rows given by their mvrvz fields;
\* ties are the comparisons of DailyTies that come out true in doubles
computeDailyIndicators(dailyBars, mvrvz, ties) ==
    DailyFrom([i \in DOMAIN dailyBars |-> dailyBars[i].close],
              [i \in DOMAIN dailyBars |-> dailyBars[i].low], mvrvz, ties,
              [i \in DOMAIN dailyBars |-> ToRat(dailyBars[i].close)])

----------------------------------------------------------------------------
(* One call of an indicator function on a bar series *)

MaxLen == 3

\* daily bars handed to computeDailyIndicators
MaxDays == 2

\* the bars of the series; NaN marks a missing field
IndBars ==
    { [open |-> 3, high |-> 6, low |-> 1, close |-> 4, volume |-> 3],
      [open |-> 5, high |-> 6, low |-> 1, close |-> 5, volume |-> 4],
      [open |-> 1, high |-> 5, low |-> 1, close |-> 2, volume |-> 0],
      [open |-> 3, high |-> NaN, low |-> 3, close |-> NaN, volume |-> 1] }

\* period or window argument of the call
IndPeriods == {0, 1, 2, 3}

\* prices are whole numbers, or tenths: a close of 4 is then the double 0.4
IndUnits == {1, 10}

\* the mvrvz fields of the rows handed to computeDailyIndicators
MvrvzRows == { <<>>, (0 :> 0 @@ 1 :> Undefined @@ 2 :> 2) }

Field(bars, f) == [i \in DOMAIN bars |-> bars[i][f]]

\* what a function returns instead of a collection
Null == "null"

\* const DEFAULT_WINDOW = 24
DEFAULT_WINDOW == 24

\* r.close <= bbLowerRow[i] for a finite lower band m - 2 * sd:
\* m - close >= 0 and (m - close)^2 >= 4 * sd^2
TouchLower(c, lower) ==
    /\ isFiniteR(lower) /\ isFinite(c)
    /\ LET d == RatSub(lower.of, ToRat(c))
       IN  /\ d.num >= 0
           /\ ~RatLt(RatMul(d, d), RatMul(Rat(4, 1), lower.sdSquared))

\* r.close and the lower band are equal as exact numbers while the mean of
\* the band is not a dyadic fraction, so that the band is a rounded double
TouchLowerTie(c, lower) ==
    /\ isFiniteR(lower) /\ isFinite(c)
    /\ ~Dyadic(lower.of)
    /\ LET d == RatSub(lower.of, ToRat(c))
       IN  /\ d.num >= 0
           /\ RatSame(RatMul(d, d), RatMul(Rat(4, 1), lower.sdSquared))

\* the value is undefined (an index past the end of a daily array)
isUndefined(x) == ToString(x) = ToString(Undefined)

\* Boolean(x) for a flag of an expanded daily array: true, false or undefined
Boolean(x) ==
    ToString(x) \notin {ToString(FALSE), ToString(Undefined), ToString(NaN),
                        ToString(0), ToString(""), ToString(Null)}

\* arr.map(Boolean)
MapBoolean(arr) == [i \in DOMAIN arr |-> Boolean(arr[i])]

\* the rows as the series vsaSignals is called on
VsaInput(rs, window) ==
    [open |-> Field(rs, "open"), high |-> Field(rs, "high"),
     low |-> Field(rs, "low"), close |-> Field(rs, "close"),
     volume |-> Field(rs, "volume"), window |-> window]

\* the comparisons of buildSignals whose exact values are equal while a
\* double behind them has been rounded more than once
SignalTies(rs, dailyToRow) ==
    {<<"touchLower", i>> : i \in
        {j \in DOMAIN rs :
           /\ j \in DOMAIN dailyToRow.dBBlowerRow
           /\ ~isUndefined(dailyToRow.dBBlowerRow[j])
           /\ TouchLowerTie(rs[j].close, dailyToRow.dBBlowerRow[j])}}
    \cup VsaTies(VsaInput(rs, DEFAULT_WINDOW))

\* engine/signals.js buildSignals: null for no rows, else the bundle of the
\* expanded daily series, the absolute flags and the row-level features;
\* ties are the comparisons of SignalTies that come out true in doubles
buildSignals(rs, dailyToRow, ties) ==
    IF ArrLen(rs) = 0 THEN [returns |-> Null]
    ELSE [returns |-> "bundle",
          series |->
            [bbLowerRow |-> dailyToRow.dBBlowerRow,
             rsiRow |-> dailyToRow.dRSIRow,
             macdRow |-> dailyToRow.dMACDRow,
             macdSigRow |-> dailyToRow.dMACDSigRow,
             macdCross |-> MapBoolean(dailyToRow.dMACDCrossRow),
             sma7Row |-> dailyToRow.dSMA7Row,
             sma30Row |-> dailyToRow.dSMA30Row,
             sma90Row |-> dailyToRow.dSMA90Row,
             smaStack |-> MapBoolean(dailyToRow.dSmaStackRow),
             prev30LowUp |-> MapBoolean(dailyToRow.dPrev30LowUpRow)],
          absolutes |->
            [piBuy |-> dailyToRow.dPiBuyRow,
             mvrvzBuy |-> dailyToRow.rMvrvBuyRow],
          features |->
            [touchLower |->
               [i \in DOMAIN rs |->
                  /\ i \in DOMAIN dailyToRow.dBBlowerRow
                  /\ ~isUndefined(dailyToRow.dBBlowerRow[i])
                  /\ IF TouchLowerTie(rs[i].close, dailyToRow.dBBlowerRow[i])
                     THEN <<"touchLower", i>> \in ties
                     ELSE TouchLower(rs[i].close, dailyToRow.dBBlowerRow[i])],
             vsaC |-> vsaSignals(Field(rs, "open"), Field(rs, "high"),
                                 Field(rs, "low"), Field(rs, "close"),
                                 Field(rs, "volume"), DEFAULT_WINDOW,
                                 ties).combined,
             piRatioRow |-> dailyToRow.dPiRatioRow]]

\* the daily series d expanded to rows by the index map
DailyToRow(d, map) ==
        [dBBlowerRow |-> expandDaily(d.dBBlower, map),
         dRSIRow |-> expandDaily(d.dRSI, map),
         dMACDRow |-> expandDaily(d.dMACD, map),
         dMACDSigRow |-> expandDaily(d.dMACDsig, map),
         dMACDCrossRow |-> expandDaily(d.dMACDcross, map),
         dSMA7Row |-> expandDaily(d.dSMA7, map),
         dSMA30Row |-> expandDaily(d.dSMA30, map),
         dSMA90Row |-> expandDaily(d.dSMA90, map),
         dSmaStackRow |-> expandDaily(d.dSmaStack, map),
         dPrev30LowUpRow |-> expandDaily(d.dPrev30LowUp, map),
         dPiBuyRow |-> expandDaily(d.dPiBuy, map),
         dPiRatioRow |-> expandDaily(d.dPiRatio, map),
         rMvrvBuyRow |-> d.rMvrvBuy]

\* a call of a math.js function or of vsaSignals on a bar series and a period,
\* or a call of computeDailyIndicators on daily bars and rows
IndInit ==
    /\ \/ \E n \in 0..MaxLen :
            \E b \in [0..(n - 1) -> IndBars], p \in IndPeriods, u \in IndUnits :
              /\ indIn = [bars |-> b, period |-> p, unit |-> u]
              /\ pc = "call"
       \/ \E n \in 0..MaxDays :
            \E b \in [0..(n - 1) -> IndBars], z \in MvrvzRows :
              /\ indIn = [bars |-> b, mvrvz |-> z, unit |-> 1]
              /\ pc = "callDaily"
    /\ indOut = << >>
    /\ ScanIdle /\ ScoreIdle /\ ResIdle /\ VsaIdle
    /\ AggIdle /\ WeightIdle /\ StackIdle

\* the call returns: indOut holds the function's name, what it returned and
\* the equal comparisons that the doubles of the run decided as true
ReturnedWith(fn, out, ties) ==
    /\ pc \in {"call", "callDaily"}
    /\ indOut' = [fn |-> fn, out |-> out, ties |-> ties]
    /\ pc' = "called"
    /\ UNCHANGED <<indIn, indOthers>>

Returned(fn, out) == ReturnedWith(fn, out, {})

\* the closes of the bars as the doubles the functions are handed
Closes ==
    [i \in DOMAIN indIn.bars |->
        IF isFinite(indIn.bars[i].close)
        THEN Rat(indIn.bars[i].close, indIn.unit) ELSE NaNr]

IndSma ==
    /\ pc = "call"
    /\ Returned("sma", [out |-> sma(Closes, indIn.period)])

IndEma ==
    /\ pc = "call"
    /\ Returned("ema", [out |-> ema(Closes, indIn.period)])

IndSmaApp ==
    /\ pc = "call"
    /\ Returned("sma (App.jsx)",
                [out |-> smaApp(Closes, indIn.period)])

IndEmaApp ==
    /\ pc = "call"
    /\ Returned("ema (App.jsx)",
                [out |-> emaApp(Closes, indIn.period)])

IndStd ==
    /\ pc = "call" /\ indIn.unit = 1
    /\ Returned("std", [out |-> stdSquared(Field(indIn.bars, "close"), indIn.period)])

IndAtr ==
    /\ pc = "call" /\ indIn.unit = 1
    /\ Returned("atr", [out |-> atr(Field(indIn.bars, "high"), Field(indIn.bars, "low"),
                                 Field(indIn.bars, "close"), indIn.period)])

IndRsi ==
    /\ pc = "call" /\ indIn.unit = 1
    /\ Returned("rsi", [out |-> rsi(Field(indIn.bars, "close"), indIn.period)])

IndRsiApp ==
    /\ pc = "call" /\ indIn.unit = 1
    /\ Returned("rsi (App.jsx)",
                [out |-> rsiApp(Field(indIn.bars, "close"), indIn.period)])

IndMacd ==
    /\ pc = "call"
    /\ Returned("macdLine",
                macdLine(Closes, indIn.period, indIn.period + 1, indIn.period))

\* the bullish-cross flags of a MACD line and its signal line
IndMacdCross ==
    /\ pc = "call"
    /\ \E m \in {macdLine(Closes, indIn.period, indIn.period + 1, indIn.period)} :
           Returned("dMACDcross",
                    [dMACD |-> m.macd, dMACDsig |-> m.signal,
                     dMACDcross |-> MacdCross(m.macd, m.signal)])

IndSlope ==
    /\ pc = "call" /\ indIn.unit = 1
    /\ Returned("slope", [out |-> slope(ToRatArr(Field(indIn.bars, "close")), indIn.period)])

IndVsa ==
    /\ pc = "call" /\ indIn.unit = 1
    /\ \E t \in SUBSET VsaTies(VsaInput(indIn.bars, indIn.period)) :
         ReturnedWith("vsaSignals",
             vsaSignals(Field(indIn.bars, "open"), Field(indIn.bars, "high"),
                        Field(indIn.bars, "low"), Field(indIn.bars, "close"),
                        Field(indIn.bars, "volume"), indIn.period, t), t)

IndDaily ==
    /\ pc = "callDaily"
    /\ \E t \in SUBSET DailyTies(indIn.bars) :
         ReturnedWith("computeDailyIndicators",
             computeDailyIndicators(indIn.bars, indIn.mvrvz, t), t)

\* buildSignals on rows that make one day each (rowToDay[i] = i)
IndBuildSignals ==
    /\ pc = "callDaily"
    /\ \E t \in SUBSET DailyTies(indIn.bars) :
         \E d \in {computeDailyIndicators(indIn.bars, indIn.mvrvz, t)} :
           \E dailyToRow \in {DailyToRow(d, [i \in DOMAIN indIn.bars |-> i])} :
             \E u \in SUBSET SignalTies(indIn.bars, dailyToRow) :
               ReturnedWith("buildSignals",
                            buildSignals(indIn.bars, dailyToRow, u), t \cup u)

IndNext ==
    \/ IndSma \/ IndSmaApp \/ IndEma \/ IndEmaApp \/ IndStd \/ IndAtr \/ IndRsi \/ IndRsiApp \/ IndMacd
    \/ IndMacdCross \/ IndSlope
    \/ IndVsa \/ IndDaily \/ IndBuildSignals

SpecInd == IndInit /\ [][IndNext]_vars

----------------------------------------------------------------------------
(* Properties of the indicator functions *)

IndN == ArrLen(indIn.bars)

\* index of the first defined close, IndN if there is none
SeedIndex ==
    IF \E i \in 0..(IndN - 1) : isFiniteR(Closes[i])
    THEN CHOOSE i \in 0..(IndN - 1) :
            isFiniteR(Closes[i]) /\ \A j \in 0..(i - 1) : ~isFiniteR(Closes[j])
    ELSE IndN

\* for each array of numbers of the returned value, the number of leading
\* positions at which the function has not enough history to compute it
NoHistory ==
    CASE indOut.fn \in {"sma", "std"} ->
            [out |-> IF indIn.period <= 0 THEN IndN ELSE indIn.period - 1]
      [] indOut.fn = "slope" ->
            [out |-> IF indIn.period <= 1 THEN IndN ELSE indIn.period - 1]
      [] indOut.fn = "rsi" ->
            [out |-> IF IndN < 2 THEN IndN ELSE indIn.period]
      [] indOut.fn = "sma (App.jsx)" ->
            [out |-> IF indIn.period <= 1 THEN SeedIndex ELSE indIn.period - 1]
      [] indOut.fn = "rsi (App.jsx)" ->
            [out |-> IF IndN < indIn.period + 1 \/ indIn.period < 2
                     THEN IndN ELSE indIn.period]
      [] indOut.fn = "ema" ->
            [out |-> IF indIn.period <= 0 THEN IndN ELSE SeedIndex]
      [] indOut.fn = "ema (App.jsx)" -> [out |-> SeedIndex]
      [] indOut.fn = "atr" ->
            [out |-> IF indIn.period <= 0 THEN IndN ELSE 0]
      [] indOut.fn = "macdLine" ->
            [macd |-> IF indIn.period <= 0 THEN IndN ELSE SeedIndex,
             signal |-> IF indIn.period <= 0 THEN IndN ELSE SeedIndex]
      [] indOut.fn = "dMACDcross" ->
            [dMACD |-> IF indIn.period <= 0 THEN IndN ELSE SeedIndex,
             dMACDsig |-> IF indIn.period <= 0 THEN IndN ELSE SeedIndex]
      [] indOut.fn = "vsaSignals" ->
            [volumeMA |-> IF indIn.period <= 0 THEN IndN ELSE indIn.period - 1,
             volumeSD |-> IF indIn.period <= 0 THEN IndN ELSE indIn.period - 1]
      [] indOut.fn = "computeDailyIndicators" ->
            [dSMA7 |-> 6, dSMA30 |-> 29, dSMA90 |-> 89, dSMA111 |-> 110,
             dSMA350 |-> 349, dPiRatio |-> 349, dBBlower |-> 19, dRSI |-> 14,
             dMACD |-> SeedIndex, dMACDsig |-> SeedIndex]

\* the same for the arrays of flags
NoFlag ==
    CASE indOut.fn = "computeDailyIndicators" ->
            [dPiBuy |-> 349, dMACDcross |-> 1, dSmaStack |-> 93,
             dPrev30LowUp |-> 30]
      [] indOut.fn = "dMACDcross" -> [dMACDcross |-> 1]
      [] OTHER -> [k \in {} |-> 0]

\* positions without enough history hold NaN, or false in an array of flags
SentinelHeld ==
    /\ \A k \in DOMAIN NoHistory :
          \A i \in 0..(IndN - 1) :
              i < NoHistory[k] => ~isFiniteR(indOut.out[k][i])
    /\ \A k \in DOMAIN NoFlag :
          \A i \in 0..(IndN - 1) : i < NoFlag[k] => ~indOut.out[k][i]

----------------------------------------------------------------------------
(* Properties of the buckets of resampleDaily *)

\* the rows whose UTC day is that of daily bar k
RowsOfDay(k) == {i \in 0..(RowsN - 1) : dayKey(rows[i].ts) = daily[k].ts}

SetMin(S) == CHOOSE x \in S : \A y \in S : x <= y
SetMax(S) == CHOOSE x \in S : \A y \in S : x >= y

\* the sum of the volumes of rows lo..hi that belong to R, a missing volume
\* counting as 0
RECURSIVE VolumeSum(_, _, _)
VolumeSum(rs, R, hi) ==
    IF hi < 0 THEN 0
    ELSE VolumeSum(rs, R, hi - 1)
         + (IF hi \in R /\ isFinite(rs[hi].volume) THEN rs[hi].volume ELSE 0)

\* C12: for a non-empty ascending row sequence every daily bar has the open
\* of the first row of its UTC day, the close of the last, the extrema of the
\* highs and lows and the sum of the volumes of the rows of that day, and its
\* ts is the UTC midnight of the day.
C12_DailyAggregationRule ==
    (pc \in {"resampled", "expanded"} /\ RowsN > 0) =>
        \A k \in DOMAIN daily :
            LET R == RowsOfDay(k) IN
            /\ R # {}
            /\ daily[k].ts % MS_PER_DAY = 0
            /\ daily[k].open = rows[SetMin(R)].open
            /\ daily[k].close = rows[SetMax(R)].close
            /\ daily[k].high = SetMax({rows[i].high : i \in R})
            /\ daily[k].low = SetMin({rows[i].low : i \in R})
            /\ daily[k].volume = VolumeSum(rows, R, RowsN - 1)

C12_Witness ==
    /\ pc = "resampled"
    /\ \E k \in DOMAIN daily :
        LET R == RowsOfDay(k) IN
        /\ Cardinality(R) >= 2
        /\ daily[k].open # daily[k].close
        /\ daily[k].high > rows[SetMin(R)].high
        /\ daily[k].low < rows[SetMax(R)].low
        /\ daily[k].volume > rows[SetMin(R)].volume
        /\ daily[k].volume > rows[SetMax(R)].volume
        /\ rows[SetMin(R)].ts > daily[k].ts

----------------------------------------------------------------------------
(* aggregate4h: data/resample.js (two versions) and App.jsx *)

MaxAggRows == 3

FOUR_H == 4 * 60 * 60 * 1000

\* the three sources of aggregate4h: the version without extras, the version
\* with extras, and the copy in App.jsx
AggVariants == {"resample.js", "resample.js+extras", "App.jsx"}

\* Math.floor(ts / FOUR_H) * FOUR_H
bucketOf(ts) == (ts \div FOUR_H) * FOUR_H

\* first timestamp and spacing of the rows; a negative step is a row out of
\* order
AggStarts == {0, 3 * MS_PER_HOUR}
AggSteps == {MS_PER_HOUR, 4 * MS_PER_HOUR, -4 * MS_PER_HOUR}

\* values of extras that are no array: a falsy one (null, undefined, 0, ""),
\* a truthy one without elements ({}, 7, true) and the string "ab"
NullSeries == (-1 :> 0)
NoSeries == (-1 :> 1)
StringSeries == (-1 :> 1) @@ (0 :> "a") @@ (1 :> "b")

isArray(x) == -1 \notin DOMAIN x

\* if (extras[k]): every array is truthy
truthy(x) == isArray(x) \/ x[-1] = 1

\* let cur = null
NoBucket == << >>

isNull(c) == DOMAIN c = {}

\* the extras argument: none, a series aligned to the rows, a series one
\* short, or a key whose value is no array
ExtrasOf(n) ==
    { << >>,
      [rsi |-> [i \in 0..(n - 1) |-> 10 + i]],
      [rsi |-> [i \in 0..(n - 2) |-> 10 + i]],
      [rsi |-> NullSeries],
      [rsi |-> NoSeries],
      [rsi |-> StringSeries],
      [ts |-> [i \in 0..(n - 1) |-> 90 + i]] }

AggInit ==
    \E n \in 0..MaxAggRows :
      \E b \in [0..(n - 1) -> RowBars], t0 \in AggStarts,
         g \in [1..(n - 1) -> AggSteps], v \in AggVariants, e \in ExtrasOf(n) :
        /\ aggVariant = v
        /\ aggRows = [k \in 0..(n - 1) |->
                        [ts |-> t0 + 4 * MS_PER_HOUR * MaxAggRows + SumTo(g, k),
                         open |-> b[k].open, high |-> b[k].high,
                         low |-> b[k].low, close |-> b[k].close,
                         volume |-> b[k].volume]]
        /\ aggExtras = IF v = "resample.js" THEN << >> ELSE e
        /\ aggI = 0
        /\ bucketKey = 0
        /\ aggCur = << >>
        /\ aggOut = << >>
        /\ pc = "aggregate4h"
        /\ ScanIdle /\ ScoreIdle /\ ResIdle /\ VsaIdle
        /\ IndIdle /\ WeightIdle /\ StackIdle

\* if rows.length === 0 return no buckets
AggEmpty ==
    /\ pc = "aggregate4h"
    /\ ArrLen(aggRows) = 0
    /\ pc' = "aggregated"
    /\ UNCHANGED <<aggVars, aggOthers>>

\* Number.isFinite(r.volume) ? r.volume : 0, or r.volume itself in App.jsx
VolumeOf(which, r) ==
    IF which = "App.jsx" THEN r.volume ELSE OrZero(r.volume)

\* a + b on numbers of the input, NaN if either is
NumAdd(a, b) == IF isFinite(a) /\ isFinite(b) THEN a + b ELSE NaN

\* the bucket opened from row r, before any update
Opened(which, r) ==
    [open |-> r.open, high |-> r.high, low |-> r.low, close |-> r.close,
     volume |-> IF which = "resample.js" THEN 0 ELSE VolumeOf(which, r)]

\* before the loop: the first bucket key and the open bucket
AggStart ==
    /\ pc = "aggregate4h"
    /\ ArrLen(aggRows) > 0
    /\ bucketKey' = bucketOf(aggRows[0].ts)
    /\ aggCur' = IF aggVariant = "App.jsx" THEN NoBucket
                 ELSE Opened(aggVariant, aggRows[0])
    /\ aggI' = 0
    /\ pc' = "aggLoop"
    /\ UNCHANGED <<aggVariant, aggRows, aggExtras, aggOut, aggOthers>>

\* Math.max(a, b), Math.min(a, b): NaN if either is
MathMax(a, b) ==
    IF isFinite(a) /\ isFinite(b) THEN (IF a >= b THEN a ELSE b) ELSE NaN
MathMin(a, b) ==
    IF isFinite(a) /\ isFinite(b) THEN (IF a <= b THEN a ELSE b) ELSE NaN

\* the open bucket c extended with row r:
\* resample.js: if (r.high > h) h = r.high; if (r.low < l) l = r.low
\* App.jsx: cur.high=Math.max(cur.high,r.high); cur.low=Math.min(cur.low,r.low)
Updated(which, c, r) ==
    [c EXCEPT !.high = IF which = "App.jsx" THEN MathMax(c.high, r.high)
                       ELSE IF NumGt(r.high, c.high) THEN r.high ELSE c.high,
              !.low = IF which = "App.jsx" THEN MathMin(c.low, r.low)
                      ELSE IF NumLt(r.low, c.low) THEN r.low ELSE c.low,
              !.close = r.close,
              !.volume = IF which = "App.jsx" THEN NumAdd(c.volume, r.volume)
                         ELSE c.volume + OrZero(r.volume)]

\* variant of the merge that keeps the value a bucket already has
WithExtras_keepFirst(which, extras, c, i) ==
    IF which = "resample.js" THEN c
    ELSE [k \in DOMAIN c \cup
               {x \in DOMAIN extras :
                   IF which = "App.jsx" THEN truthy(extras[x])
                   ELSE isArray(extras[x]) /\ ArrLen(extras[x]) > i} |->
            IF k \in DOMAIN c THEN c[k]
            ELSE IF i \in DOMAIN extras[k] THEN extras[k][i] ELSE Undefined]

\* the key is written at row i: App.jsx if (extras[k]); resample.js
\* Array.isArray(series) and series.length > i
ExtraWritten(which, series, i) ==
    IF which = "App.jsx" THEN truthy(series)
    ELSE isArray(series) /\ ArrLen(series) > i

\* the loop over the extras keys at row i: cur[key] = series[i]
WithExtras(which, extras, c, i) ==
    IF which = "resample.js" THEN c
    ELSE [k \in DOMAIN c \cup
               {x \in DOMAIN extras : ExtraWritten(which, extras[x], i)} |->
            IF k \in DOMAIN extras /\ ExtraWritten(which, extras[k], i)
            THEN IF i \in DOMAIN extras[k] THEN extras[k][i] ELSE Undefined
            ELSE c[k]]

\* push: the open bucket with its key, appended to out
Pushed(which, out, key, c) ==
    IF isNull(c) THEN out
    ELSE Push(out, IF which = "resample.js"
                   THEN [ts4h |-> key] @@ c ELSE c @@ [ts |-> key])

\* variant of the new-bucket step that drops the bucket it closes
AggStepNewBucket_noPush ==
    /\ pc = "aggLoop"
    /\ aggI < ArrLen(aggRows)
    /\ \/ bucketOf(aggRows[aggI].ts) # bucketKey
       \/ aggVariant = "App.jsx" /\ isNull(aggCur)
    /\ LET r == aggRows[aggI]
           fresh == IF aggVariant = "resample.js"
                    THEN Updated(aggVariant, Opened(aggVariant, r), r)
                    ELSE Opened(aggVariant, r)
       IN /\ aggOut' = aggOut
          /\ bucketKey' = bucketOf(r.ts)
          /\ aggCur' = WithExtras(aggVariant, aggExtras, fresh, aggI)
    /\ aggI' = aggI + 1
    /\ UNCHANGED <<pc, aggVariant, aggRows, aggExtras, aggOthers>>

\* loop body, key differs (or no bucket is open yet in App.jsx): push the open
\* bucket, open one from the row, then the extras
AggStepNewBucket ==
    /\ pc = "aggLoop"
    /\ aggI < ArrLen(aggRows)
    /\ \/ bucketOf(aggRows[aggI].ts) # bucketKey
       \/ aggVariant = "App.jsx" /\ isNull(aggCur)
    /\ LET r == aggRows[aggI]
           fresh == IF aggVariant = "resample.js"
                    THEN Updated(aggVariant, Opened(aggVariant, r), r)
                    ELSE Opened(aggVariant, r)
       IN /\ aggOut' = Pushed(aggVariant, aggOut, bucketKey, aggCur)
          /\ bucketKey' = bucketOf(r.ts)
          /\ aggCur' = WithExtras(aggVariant, aggExtras, fresh, aggI)
    /\ aggI' = aggI + 1
    /\ UNCHANGED <<pc, aggVariant, aggRows, aggExtras, aggOthers>>

\* loop body, same key: update the open bucket, then the extras
AggStepSameBucket ==
    /\ pc = "aggLoop"
    /\ aggI < ArrLen(aggRows)
    /\ bucketOf(aggRows[aggI].ts) = bucketKey
    /\ ~(aggVariant = "App.jsx" /\ isNull(aggCur))
    /\ aggCur' = WithExtras(aggVariant, aggExtras,
                            Updated(aggVariant, aggCur, aggRows[aggI]), aggI)
    /\ aggI' = aggI + 1
    /\ UNCHANGED <<pc, aggVariant, aggRows, aggExtras, bucketKey, aggOut, aggOthers>>

\* after the loop: push() and return
AggFinish ==
    /\ pc = "aggLoop"
    /\ aggI >= ArrLen(aggRows)
    /\ aggOut' = Pushed(aggVariant, aggOut, bucketKey, aggCur)
    /\ pc' = "aggregated"
    /\ UNCHANGED <<aggVariant, aggRows, aggExtras, aggI, bucketKey, aggCur, aggOthers>>

AggNext ==
    \/ AggEmpty \/ AggStart \/ AggStepNewBucket \/ AggStepSameBucket
    \/ AggFinish

SpecAgg == AggInit /\ [][AggNext]_vars

----------------------------------------------------------------------------
(* Properties of aggregate4h *)

AggN == ArrLen(aggRows)

\* the key of an output bucket
KeyOf(b) == IF "ts4h" \in DOMAIN b THEN b.ts4h ELSE b.ts

Ascending(rs) == \A i \in 1..(ArrLen(rs) - 1) : rs[i - 1].ts <= rs[i].ts

\* the rows whose floor(ts / 4h) is the key of output bucket k
RowsOfBucket(k) ==
    {i \in 0..(AggN - 1) : bucketOf(aggRows[i].ts) = KeyOf(aggOut[k])}

\* the sum of the volumes of the rows of R up to hi, each row once; a
\* non-finite volume counts as 0, and in App.jsx makes the sum NaN
RECURSIVE RowVolumeSum(_, _, _)
RowVolumeSum(which, R, hi) ==
    IF hi < 0 THEN 0
    ELSE IF hi \notin R THEN RowVolumeSum(which, R, hi - 1)
    ELSE IF which = "App.jsx"
         THEN NumAdd(RowVolumeSum(which, R, hi - 1), aggRows[hi].volume)
         ELSE RowVolumeSum(which, R, hi - 1) + OrZero(aggRows[hi].volume)

RECURSIVE BucketVolumeSum(_, _)
BucketVolumeSum(which, hi) ==
    IF hi < 0 THEN 0
    ELSE IF which = "App.jsx"
         THEN NumAdd(BucketVolumeSum(which, hi - 1), aggOut[hi].volume)
         ELSE BucketVolumeSum(which, hi - 1) + aggOut[hi].volume

\* the aggregation rule at output bucket k
BucketRule(k) ==
    LET R == RowsOfBucket(k) IN
    /\ R # {}
    /\ aggOut[k].open = aggRows[SetMin(R)].open
    /\ aggOut[k].close = aggRows[SetMax(R)].close
    /\ aggOut[k].high = SetMax({aggRows[i].high : i \in R})
    /\ aggOut[k].low = SetMin({aggRows[i].low : i \in R})
    /\ aggOut[k].volume = RowVolumeSum(aggVariant, R, AggN - 1)

\* C13: for a non-empty ascending row sequence every 4-hour bucket of
\* aggregate4h, the first one included, has the open of its first row, the
\* close of its last row, the extrema of the highs and lows, and the sum of
\* the volumes of exactly its rows, each counted once, so that the bucket
\* volumes add up to the row volumes.
C13_FixedWidthAggregationRule ==
    (pc = "aggregated" /\ AggN > 0 /\ Ascending(aggRows)) =>
        /\ \A k \in DOMAIN aggOut : BucketRule(k)
        /\ BucketVolumeSum(aggVariant, ArrLen(aggOut) - 1)
             = RowVolumeSum(aggVariant, 0..(AggN - 1), AggN - 1)

----------------------------------------------------------------------------
(* The two bucketing functions side by side *)

BucketsInit == ResInit \/ AggInit

BucketsNext == ResNext \/ AggNext

SpecBuckets == BucketsInit /\ [][BucketsNext]_vars

\* the number of adjacent pairs (i - 1, i), 1 <= i <= hi, whose keys differ
RECURSIVE DayChanges(_)
DayChanges(hi) ==
    IF hi < 1 THEN 0
    ELSE DayChanges(hi - 1)
         + (IF dayKey(rows[hi].ts) # dayKey(rows[hi - 1].ts) THEN 1 ELSE 0)

RECURSIVE BucketChanges(_)
BucketChanges(hi) ==
    IF hi < 1 THEN 0
    ELSE BucketChanges(hi - 1)
         + (IF bucketOf(aggRows[hi].ts) # bucketOf(aggRows[hi - 1].ts)
            THEN 1 ELSE 0)

\* C14: while the rows are read, the closed buckets are as many as the key
\* changes observed so far; after the final flush the output of a non-empty
\* row sequence has one bar more than there are adjacent row pairs with
\* different keys, is not empty, and every row lies in the one bar whose
\* number is the count of key changes up to that row (the bar carries the
\* key of the row unless an extra series named ts has overwritten it).
C14_BucketClosingAndFlush ==
    /\ (pc = "resLoop" /\ resI >= 1) => ArrLen(daily) = DayChanges(resI - 1)
    /\ (pc = "aggLoop" /\ aggI >= 1) => ArrLen(aggOut) = BucketChanges(aggI - 1)
    /\ (pc \in {"resampled", "expanded"} /\ RowsN > 0) =>
          /\ ArrLen(daily) = 1 + DayChanges(RowsN - 1)
          /\ ArrLen(daily) >= 1
          /\ \A i \in 0..(RowsN - 1) :
                /\ DayChanges(i) \in DOMAIN daily
                /\ daily[DayChanges(i)].ts = dayKey(rows[i].ts)
                /\ (i = RowsN - 1 \/ DayChanges(i + 1) # DayChanges(i)) =>
                      daily[DayChanges(i)].close = rows[i].close
    /\ (pc = "aggregated" /\ AggN > 0) =>
          /\ ArrLen(aggOut) = 1 + BucketChanges(AggN - 1)
          /\ ArrLen(aggOut) >= 1
          /\ \A i \in 0..(AggN - 1) :
                /\ BucketChanges(i) \in DOMAIN aggOut
                /\ ("ts" \notin DOMAIN aggExtras) =>
                      KeyOf(aggOut[BucketChanges(i)]) = bucketOf(aggRows[i].ts)
                /\ (i = AggN - 1 \/ BucketChanges(i + 1) # BucketChanges(i)) =>
                      aggOut[BucketChanges(i)].close = aggRows[i].close

C14_Witness ==
    /\ pc = "aggregated"
    /\ aggVariant = "App.jsx"
    /\ AggN = 3
    /\ ArrLen(aggOut) = 2
    /\ BucketChanges(1) = 0 /\ BucketChanges(2) = 1
    /\ aggOut[0].close = aggRows[1].close
    /\ aggOut[0].close # aggRows[0].close

----------------------------------------------------------------------------
(* Properties of rsi *)

\* the smoothed averages behind the returned value at index i
AvgAt(i) ==
    IF indOut.fn = "rsi"
    THEN rsiAvg(Field(indIn.bars, "close"), indIn.period, i)
    ELSE rsiAppAvg(Field(indIn.bars, "close"), indIn.period, i)

\* C15: at every position where rsi is defined the value is within 0..100,
\* and where the smoothed average loss is zero it is exactly 100, in the
\* math.js rsi and in the App.jsx rsi.
C15_RsiBounds ==
    (pc = "called" /\ indOut.fn \in {"rsi", "rsi (App.jsx)"}) =>
        \A i \in 0..(IndN - 1) :
            isFiniteR(indOut.out.out[i]) =>
                /\ RatLe(Rat(0, 1), indOut.out.out[i])
                /\ RatLe(indOut.out.out[i], Rat(100, 1))
                /\ (isFiniteR(AvgAt(i).avgLoss) /\ AvgAt(i).avgLoss.num = 0) =>
                      indOut.out.out[i] = Rat(100, 1)

----------------------------------------------------------------------------
(* The pipeline stages side by side: resampling, aggregation, indicators *)

PipelineInit == ResInit \/ AggInit \/ IndInit

PipelineNext == ResNext \/ AggNext \/ IndNext

SpecPipeline == PipelineInit /\ [][PipelineNext]_vars

\* every array of the record o is empty
AllEmpty(o) == \A k \in DOMAIN o : DOMAIN o[k] = {}

\* C16: on an empty row sequence every stage returns empty collections:
\* resampleDaily an empty daily list and index map, aggregate4h no buckets,
\* the indicator functions and vsaSignals empty series, and buildSignals a
\* bundle (not null) whose series are empty.
C16_EmptyInputEmptyOutputs ==
    /\ (pc = "resampled" /\ ArrLen(rows) = 0) =>
          (daily = << >> /\ rowToDay = << >>)
    /\ (pc = "aggregated" /\ ArrLen(aggRows) = 0) => aggOut = << >>
    /\ (pc = "called" /\ IndN = 0) =>
          IF indOut.fn = "buildSignals"
          THEN /\ indOut.out.returns # Null
               /\ AllEmpty(indOut.out.series)
          ELSE \A k \in DOMAIN indOut.out :
                  k # "rMvrvBuy" => DOMAIN indOut.out[k] = {}

----------------------------------------------------------------------------
(* app/App.jsx: the weight sliders (weights and slider values in hundredths) *)

MaxSetCalls == 3

WeightKeys == DOMAIN DEFAULT_WEIGHTS

\* values handed to setWeight: below the range, its two ends, inside, above
SetValues == {-100, 0, 250, 500, 505}

\* variant of clamp without the upper end
clamp_noUpper(x) == IF x < 0 THEN 0 ELSE x

\* const clamp = (x) => Math.max(0, Math.min(5, x))
clamp(x) == IF (IF x > 500 THEN 500 ELSE x) < 0 THEN 0
            ELSE (IF x > 500 THEN 500 ELSE x)

\* useState({...DEFAULT_WEIGHTS}); no call of setWeight yet
WeightInit ==
    /\ weights = DEFAULT_WEIGHTS
    /\ setCall = [n |-> 0]
    /\ pc = "sliders"
    /\ ScanIdle /\ ScoreIdle /\ ResIdle /\ VsaIdle
    /\ IndIdle /\ AggIdle /\ StackIdle

\* setWeight(key, value): setWeights(w => ({...w, [key]: clamp(value)}))
SetWeight ==
    /\ pc = "sliders"
    /\ setCall.n < MaxSetCalls
    /\ \E key \in WeightKeys, value \in SetValues :
        /\ weights' = [weights EXCEPT ![key] = clamp(value)]
        /\ setCall' = [n |-> setCall.n + 1, key |-> key, value |-> value]
    /\ UNCHANGED <<pc, weightOthers>>

WeightNext == SetWeight

SpecWeights == WeightInit /\ [][WeightNext]_vars

\* C17: starting from the default weights, after any sequence of setWeight
\* calls every one of the 9 weights is within [0, 5] and the key set of the
\* record is the default one; each call changes only the weight named by
\* its key and leaves the other 8 unchanged.
C17_WeightsStayInRange ==
    /\ [](pc = "sliders" =>
            /\ DOMAIN weights = WeightKeys
            /\ Cardinality(WeightKeys) = 9
            /\ \A k \in WeightKeys : weights[k] >= 0 /\ weights[k] <= 500)
    /\ [][pc = "sliders" =>
            \A k \in WeightKeys : k # setCall'.key => weights'[k] = weights[k]]_vars

\* calls with a value above and a value below the range have been clamped
C17_Witness ==
    /\ pc = "sliders" /\ setCall.n = MaxSetCalls
    /\ setCall.value = 505 /\ weights[setCall.key] = 500
    /\ \E k \in WeightKeys : k # setCall.key /\ weights[k] = 0
    /\ \E k \in WeightKeys : weights[k] = DEFAULT_WEIGHTS[k] /\ weights[k] # 500

----------------------------------------------------------------------------
(* Properties of the cooldown of the buy-event scan *)

\* the first index that satisfies the cross-up test, 0 if there is none
FirstCandidate ==
    IF \E i \in 1..(ScanN - 1) : Candidate(i)
    THEN CHOOSE i \in 1..(ScanN - 1) :
            Candidate(i) /\ \A j \in 1..(i - 1) : ~Candidate(j)
    ELSE 0

\* C18: the events of one scan are in strictly increasing timestamp order,
\* any two of them are at least the cooldown apart, and the first candidate
\* of the cross-up test is emitted as soon as the scan has passed it.
C18_CooldownSeparation ==
    /\ \A k, l \in 1..Len(buys) :
          k < l => /\ buys[k].ts < buys[l].ts
                   /\ buys[l].ts - buys[k].ts >= cooldownMs
    /\ (pc \in {"scan", "scanned"} /\ FirstCandidate # 0
          /\ scanI > FirstCandidate) =>
          (Len(buys) >= 1 /\ buys[1].index = FirstCandidate)

\* a finished scan with two events and a rejected candidate between them,
\* whose first candidate is earlier than the cooldown duration
C18_Witness ==
    /\ pc = "scanned" /\ Len(buys) >= 2
    /\ buys[1].index = FirstCandidate
    /\ buys[1].ts < cooldownMs
    /\ \E i \in 1..(ScanN - 1) :
          /\ Candidate(i) /\ ~Emitted(i)
          /\ buys[1].index < i /\ i < buys[2].index

\* the cross-up test and the cooldown test both pass at the index of the scan
Accepts ==
    /\ scanI < ScanN
    /\ cross(confidence, threshold, scanI)
    /\ CooldownOk(visTs[scanI], lastBuyTs, cooldownMs)

\* C19: lastBuyTs and the list of events change only in a step that emits
\* an event at the index of the scan; a step at an index that fails the
\* cross-up test or the cooldown test changes neither, and an index the scan
\* has passed without emitting is not emitted by any later step.
C19_RejectedLeaveStateUnchanged ==
    [][pc = "scan" =>
         /\ (~Accepts) => (buys' = buys /\ lastBuyTs' = lastBuyTs)
         /\ Accepts => (/\ Len(buys') = Len(buys) + 1
                        /\ buys'[Len(buys')].index = scanI
                        /\ lastBuyTs' = visTs[scanI])
         /\ \A i \in 1..(ScanN - 1) :
               (i < scanI /\ ~Emitted(i)) => ~Emitted(i)']_vars

\* a finished scan that rejected a candidate inside the cooldown and a bar
\* without cross-up, and emitted an event after both
C19_Witness ==
    /\ pc = "scanned" /\ Len(buys) >= 2
    /\ lastBuyTs = buys[Len(buys)].ts
    /\ \E i, j \in 1..(ScanN - 1) :
          /\ Candidate(i) /\ ~Emitted(i)
          /\ ~Candidate(j) /\ ~Emitted(j)
          /\ i < buys[Len(buys)].index /\ j < buys[Len(buys)].index
          /\ visTs[i] - buys[1].ts < cooldownMs

----------------------------------------------------------------------------
(* indicators/daily.js: the SMA stack persistence loop *)

\* number of days after the fixed history
MaxTail == 5

\* days of fixed history; dSMA90 is defined from day 89 on
HistoryDays == 91

\* daily closes of the history: a slow rise
PrefixClose(i) == IF i < 60 THEN 100 ELSE IF i < 83 THEN 101 ELSE 102

\* daily closes after the history: the rise goes on, a crash, a spike
TailCloses == {102, 0, 1000}

persist == 5

\* condToday: the three averages are finite, dSMA30 > dSMA90, dSMA7 > dSMA30
condTodayOf(dSMA7, dSMA30, dSMA90) ==
    [i \in DOMAIN dSMA30 |->
        /\ isFiniteR(dSMA30[i]) /\ isFiniteR(dSMA90[i]) /\ isFiniteR(dSMA7[i])
        /\ RatGt(dSMA30[i], dSMA90[i])
        /\ RatGt(dSMA7[i], dSMA30[i])]

\* condToday of the three averages of the daily closes; dSmaStack filled
\* with false, run = 0
StackInit ==
    \E t \in 0..MaxTail :
      \E tail \in [0..(t - 1) -> TailCloses], short \in BOOLEAN :
        LET dClose == IF short /\ t > 0
                      THEN tail
                      ELSE [i \in 0..(HistoryDays + t - 1) |->
                              IF i < HistoryDays THEN PrefixClose(i)
                              ELSE tail[i - HistoryDays]]
        IN  /\ \E dSMA7 \in {sma(ToRatArr(dClose), 7)},
                   dSMA30 \in {sma(ToRatArr(dClose), 30)},
                   dSMA90 \in {sma(ToRatArr(dClose), 90)} :
                  stackIn = condTodayOf(dSMA7, dSMA30, dSMA90)
            /\ dSmaStack = Filled(ArrLen(dClose), FALSE)
            /\ run = 0
            /\ stackI = 0
            /\ pc = "stack"
            /\ ScanIdle /\ ScoreIdle /\ ResIdle /\ VsaIdle
            /\ IndIdle /\ AggIdle /\ WeightIdle

\* variant of the loop body that keeps the run over a day without the condition
StackStep_noReset ==
    /\ pc = "stack"
    /\ stackI < ArrLen(dSmaStack)
    /\ LET r == IF stackIn[stackI] THEN run + 1 ELSE run IN
        /\ run' = r
        /\ dSmaStack' = IF r >= persist
                        THEN [dSmaStack EXCEPT ![stackI] = TRUE]
                        ELSE dSmaStack
    /\ stackI' = stackI + 1
    /\ UNCHANGED <<pc, stackIn, stackOthers>>

\* loop body: run = condToday[i] ? run + 1 : 0; if (run >= persist)
\* dSmaStack[i] = true
StackStep ==
    /\ pc = "stack"
    /\ stackI < ArrLen(dSmaStack)
    /\ LET r == IF stackIn[stackI] THEN run + 1 ELSE 0 IN
        /\ run' = r
        /\ dSmaStack' = IF r >= persist
                        THEN [dSmaStack EXCEPT ![stackI] = TRUE]
                        ELSE dSmaStack
    /\ stackI' = stackI + 1
    /\ UNCHANGED <<pc, stackIn, stackOthers>>

\* loop exit: i = n
StackDone ==
    /\ pc = "stack"
    /\ stackI >= ArrLen(dSmaStack)
    /\ pc' = "stacked"
    /\ UNCHANGED <<stackVars, stackOthers>>

StackNext == StackStep \/ StackDone

SpecStack == StackInit /\ [][StackNext]_vars

StackN == ArrLen(dSmaStack)

\* the condition holds on day j of the input
Cond(j) == j \in 0..(StackN - 1) /\ stackIn[j]

\* C20: dSmaStack[i] is true exactly when the condition holds on each of
\* the days i-4..i; the run counter is 0 after a day without the condition,
\* and the flag is false on that day and on the 4 days after it.
C20_TrendPersistenceFlag ==
    pc \in {"stack", "stacked"} =>
        /\ \A i \in 0..(stackI - 1) :
              dSmaStack[i] <=> \A j \in (i - 4)..i : Cond(j)
        /\ (stackI > 0 /\ ~Cond(stackI - 1)) => run = 0
        /\ \A d \in 0..(stackI - 1) :
              ~Cond(d) =>
                  \A k \in 0..4 : (d + k < stackI) => ~dSmaStack[d + k]

\* a finished loop that set the flag after 5 days, met a day without the
\* condition, and left the flag false on a later day with the condition
C20_Witness ==
    /\ pc = "stacked"
    /\ \E i \in 1..(StackN - 1) :
          /\ dSmaStack[i] /\ ~dSmaStack[i - 1] /\ Cond(i - 1)
          /\ \E d \in (i + 1)..(StackN - 1) :
                /\ ~Cond(d)
                /\ \E e \in (d + 1)..(StackN - 1) : Cond(e) /\ ~dSmaStack[e]

----------------------------------------------------------------------------
(* Properties of the MACD bullish-cross flag *)

\* the call returned a MACD line, its signal line and the cross flags
CrossReturned ==
    pc = "called" /\ indOut.fn \in {"dMACDcross", "computeDailyIndicators"}

\* C21: dMACDcross[i] is true exactly when i > 0, the MACD and signal values
\* at i-1 and i are all defined, MACD[i-1] <= signal[i-1] and
\* MACD[i] > signal[i].
C21_MacdBullishCross ==
    CrossReturned =>
        LET o == indOut.out IN
        \A i \in 0..(IndN - 1) :
            o.dMACDcross[i] <=>
                /\ i > 0
                /\ isFiniteR(o.dMACD[i]) /\ isFiniteR(o.dMACDsig[i])
                /\ isFiniteR(o.dMACD[i - 1]) /\ isFiniteR(o.dMACDsig[i - 1])
                /\ fLe(o.dMACD[i - 1], o.dMACDsig[i - 1])
                /\ fGt(o.dMACD[i], o.dMACDsig[i])

\* a cross at day 1 and a bar above the signal without a cross at day 2
C21_Witness ==
    /\ CrossReturned /\ IndN = 3
    /\ indOut.out.dMACDcross[1] /\ ~indOut.out.dMACDcross[2]
    /\ fGt(indOut.out.dMACD[2], indOut.out.dMACDsig[2])

----------------------------------------------------------------------------
(* Properties of ema and sma *)

\* C22: for period > 0 the output of ema is the sentinel before the first
\* defined input, equals that input at the seed, is defined from the seed
\* onward, and at a missing input equals the previous output; in the
\* math.js ema and in the App.jsx ema.
C22_EmaDefinedness ==
    (pc = "called" /\ indOut.fn \in {"ema", "ema (App.jsx)"}
        /\ indIn.period > 0) =>
        \A i \in 0..(IndN - 1) :
            /\ i < SeedIndex => ~isFiniteR(indOut.out.out[i])
            /\ i = SeedIndex => NumSame(indOut.out.out[i], Closes[i])
            /\ i >= SeedIndex => isFiniteR(indOut.out.out[i])
            /\ (i > SeedIndex /\ ~isFiniteR(Closes[i])) =>
                  NumSame(indOut.out.out[i], indOut.out.out[i - 1])

\* the exact sum of the closes lo..hi
RECURSIVE WindowSum(_, _)
WindowSum(lo, hi) ==
    IF hi < lo THEN Exact(1, << >>, 0)
    ELSE PartsAdd(WindowSum(lo, hi - 1), Parts(Closes[hi]))

\* the double nearest to the mean of the closes lo..hi
WindowMean(lo, hi) == DivParts(WindowSum(lo, hi), hi - lo + 1)

\* C23: on a series of defined values and period p >= 1, sma is the
\* sentinel at every index i < p-1 and the mean of arr[i-p+1..i] at every
\* index i >= p-1; in the math.js sma and in the App.jsx sma.
C23_SmaRunningSum ==
    (pc = "called" /\ indOut.fn \in {"sma", "sma (App.jsx)"}
        /\ indIn.period >= 1
        /\ \A i \in 0..(IndN - 1) : isFiniteR(Closes[i])) =>
        \A i \in 0..(IndN - 1) :
            IF i < indIn.period - 1 THEN ~isFiniteR(indOut.out.out[i])
            ELSE NumSame(indOut.out.out[i],
                         WindowMean(i - indIn.period + 1, i))

\* the closes 0.4 and 0.2 and a window of 1: the running sum is
\* 0.4 + 0.2 - 0.4, which is not 0.2
C23_Drift ==
    /\ pc = "called" /\ indOut.fn \in {"sma", "sma (App.jsx)"}
    /\ IndN = 2 /\ indIn.period = 1 /\ indIn.unit = 10
    /\ indIn.bars[0].close = 4 /\ indIn.bars[1].close = 2
    /\ fGt(indOut.out.out[1], Closes[1])

\* on whole-number closes the running sum is exact: sma is the sentinel
\* before index p-1 and the mean of the window from there on
C23_WholeNumbers ==
    (pc = "called" /\ indOut.fn \in {"sma", "sma (App.jsx)"}
        /\ indIn.period >= 1 /\ indIn.unit = 1
        /\ \A i \in 0..(IndN - 1) : isFiniteR(Closes[i])) =>
        \A i \in 0..(IndN - 1) :
            IF i < indIn.period - 1 THEN ~isFiniteR(indOut.out.out[i])
            ELSE NumSame(indOut.out.out[i],
                         WindowMean(i - indIn.period + 1, i))

----------------------------------------------------------------------------
(* Properties of the bars vsaSignals does not evaluate *)

\* bar i >= 1 has a non-finite high, low or close, a range <= 0, or neither
\* open[i] nor close[i-1] defined
Unevaluated(i) ==
    \/ vsaIn.high[i] = NaN \/ vsaIn.low[i] = NaN \/ vsaIn.close[i] = NaN
    \/ vsaIn.high[i] <= vsaIn.low[i]
    \/ (vsaIn.open[i] = NaN /\ vsaIn.close[i - 1] = NaN)

AllZero(i) ==
    /\ vsaOut.score[i] = 0 /\ vsaOut.combined[i] = 0
    /\ \A k \in 1..Len(PatternNames) : vsaOut[PatternNames[k]][i] = 0

\* C24: in the vsaSignals output index 0 has score 0, combined 0 and all 8
\* flags 0, and so has every index i >= 1 whose bar is not evaluated.
C24_UnevaluatedBarsAllZero ==
    (pc \in {"vsaLoop", "vsaReturned"}) =>
        \A i \in 0..(VsaN - 1) : (i = 0 \/ Unevaluated(i)) => AllZero(i)

\* a returned output with a bar skipped for its range, a bar skipped for
\* having no reference open, and an evaluated bar with a flag
C24_Witness ==
    /\ pc = "vsaReturned" /\ VsaN = MaxVsaBars
    /\ \E j, k, l \in 1..(VsaN - 1) :
          /\ vsaIn.high[j] # NaN /\ vsaIn.high[j] <= vsaIn.low[j]
          /\ vsaIn.open[k] = NaN /\ vsaIn.close[k - 1] = NaN
          /\ vsaIn.high[k] # NaN /\ vsaIn.high[k] > vsaIn.low[k]
          /\ ~Unevaluated(l) /\ ~AllZero(l)

----------------------------------------------------------------------------
(* Properties of the extras aggregate4h merges into its buckets *)

\* row i is the last row of its bucket
LastOfBucket(i) ==
    i = AggN - 1 \/ bucketOf(aggRows[i + 1].ts) # bucketOf(aggRows[i].ts)

\* C25: for every bucket aggregate4h returns and every extra series that
\* covers all rows, the bucket's value for the key is the series value at
\* the index of the bucket's last row.
C25_LastKnownValueMerge ==
    (pc = "aggregated" /\ aggVariant # "resample.js") =>
        \A key \in DOMAIN aggExtras :
            (isArray(aggExtras[key]) /\ ArrLen(aggExtras[key]) >= AggN) =>
                \A i \in 0..(AggN - 1) :
                    LastOfBucket(i) =>
                        /\ key \in DOMAIN aggOut[BucketChanges(i)]
                        /\ aggOut[BucketChanges(i)][key] = aggExtras[key][i]

\* two buckets, the first with two rows, and a series covering all rows
C25_Witness ==
    /\ pc = "aggregated" /\ aggVariant # "resample.js"
    /\ AggN = 3 /\ ArrLen(aggOut) = 2
    /\ "rsi" \in DOMAIN aggExtras /\ isArray(aggExtras.rsi)
    /\ ArrLen(aggExtras.rsi) = 3
    /\ ~LastOfBucket(0) /\ LastOfBucket(1)
    /\ aggOut[0].rsi = aggExtras.rsi[1] /\ aggOut[1].rsi = aggExtras.rsi[2]

----------------------------------------------------------------------------
(* scoreBar on the context the pipeline builds: piBuy and piDeep both come
   from the daily PI ratio (App.jsx 523-524, 553-554, 590-594) *)

\* daily SMA111 and SMA350 values (NaN during warm-up); the ratios they
\* give lie below, at and above 0.125 and 0.30
Sma111Values == {NaN, 0, 1, 3}
Sma350Values == {NaN, 0, 1, 2, 4, 5, 100}

\* Number.isFinite(v) && Number.isFinite(dSMA350[i]) && dSMA350[i]!==0
\*     ? v/(2*dSMA350[i]) : NaN
dPiRatio(v, s350) ==
    IF isFinite(v) /\ isFinite(s350) /\ s350 # 0
    THEN RatNorm(v, 2 * s350) ELSE NaNr

\* dPiRatio.map(v=> Number.isFinite(v) && v<=0.30)
dPiBuy(v) == isFiniteR(v) /\ ~RatLt(Rat(3, 10), v)

\* variant of the deep test whose bound lies above the absolute bound
piDeep_aboveBuy(v) == isFiniteR(v) /\ RatLt(v, Rat(1, 2))

\* piRatioRow.slice(s,e).map(v=> Number.isFinite(v) && v < 0.125)
piDeep(v) == isFiniteR(v) /\ RatLt(v, Rat(1, 8))

ScorePipeInit ==
    \E v \in ScoreVariants, w \in WeightConfigs, r \in {NaN, 100, 301},
       vs \in {NaN, 26}, vc \in {0, 1},
       s111 \in Sma111Values, s350 \in Sma350Values,
       b \in [{"mvrvzBuy", "touchLower", "macdCross", "smaStack",
               "prevLowUp"} -> BOOLEAN] :
        /\ variant = v
        /\ ctx = [piBuy |-> dPiBuy(dPiRatio(s111, s350)),
                  mvrvzBuy |-> b["mvrvzBuy"],
                  touchLower |-> b["touchLower"], macdCross |-> b["macdCross"],
                  rsi |-> r, vsa |-> vc, vsaScore |-> vs,
                  smaStack |-> b["smaStack"], prevLowUp |-> b["prevLowUp"],
                  piDeep |-> piDeep(dPiRatio(s111, s350)), weights |-> w]
        /\ raw = 0
        /\ maxRaw = 0
        /\ parts = << >>
        /\ result = << >>
        /\ pc = "scoreBar"
        /\ ScanIdle /\ ResIdle /\ VsaIdle
        /\ IndIdle /\ AggIdle /\ WeightIdle /\ StackIdle

SpecScorePipeline == ScorePipeInit /\ [][ScoreNext]_vars

\* C26: in the pipeline piDeep implies piBuy, so every bar with piDeep true
\* returns through the absolute override; on every bar that reaches blended
\* scoring the piDeep part is 0 while its weight is counted in maxRaw, and
\* with a piDeep weight > 0 the blended confidence stays below 99.9.
C26_DeepPiNeverContributes ==
    /\ ctx.piDeep => ctx.piBuy
    /\ (pc = "returned" /\ ctx.piDeep) =>
           (~result.hasParts /\ result.confidence = Rat(ABSOLUTE_CAP, 1))
    /\ Blended =>
           /\ ~ctx.piDeep
           /\ result.parts.piDeep = 0
           /\ maxRaw - raw >= ctx.weights.piDeep
           /\ ctx.weights.piDeep > 0 =>
                  /\ ~RatEq(result.confidence, Rat(BLENDED_CAP, 1))
                  /\ RatLe(result.confidence, Rat(BLENDED_CAP, 1))

\* a blended bar on which every component but piDeep is active
C26_Witness ==
    /\ Blended
    /\ ctx.weights.piDeep = 200
    /\ ctx.touchLower /\ ctx.macdCross /\ ctx.smaStack /\ ctx.prevLowUp
    /\ VsaHolds /\ ctx.rsi = 100
    /\ raw = 700 /\ maxRaw = 900
    /\ RatEq(result.confidence, Rat(7 * BLENDED_CAP, 9))

----------------------------------------------------------------------------
(* Properties of the direction and volume tests of vsaSignals *)

\* a pattern that needs a down bar is flagged at index i
DownPattern(i) ==
    vsaOut.stopping[i] = 1 \/ vsaOut.climactic[i] = 1
        \/ vsaOut.effortResult[i] = 1

\* a pattern that needs an up bar is flagged at index i
UpPattern(i) == vsaOut.shakeout[i] = 1 \/ vsaOut.demand[i] = 1

\* C27: on any single bar the patterns that need a down bar (stopping,
\* climactic, effortResult) are never active together with the patterns that
\* need an up bar (shakeout, demand); in particular shakeout and
\* effortResult are never both active, and noSupply is never active
\* together with testBar.
C27_DirectionExclusivePatterns ==
    (pc \in {"vsaLoop", "vsaReturned"}) =>
        \A i \in 0..(VsaN - 1) :
            /\ ~(DownPattern(i) /\ UpPattern(i))
            /\ ~(vsaOut.shakeout[i] = 1 /\ vsaOut.effortResult[i] = 1)
            /\ ~(vsaOut.noSupply[i] = 1 /\ vsaOut.testBar[i] = 1)

\* one series with a down pattern, an up pattern, a noSupply bar and a
\* testBar bar
C27_Witness ==
    /\ pc = "vsaReturned"
    /\ \E i \in 1..(VsaN - 1) :
          vsaOut.effortResult[i] = 1 /\ vsaOut.stopping[i] = 1
    /\ \E i \in 1..(VsaN - 1) : vsaOut.shakeout[i] = 1
    /\ \E i \in 1..(VsaN - 1) : vsaOut.noSupply[i] = 1
    /\ \E i \in 1..(VsaN - 1) : vsaOut.testBar[i] = 1

----------------------------------------------------------------------------
(* Properties of consecutive MACD cross flags *)

\* C28: the MACD bullish-cross flag is never true on two consecutive daily
\* bars: dMACDcross[i] and dMACDcross[i+1] are not both true.
C28_NoConsecutiveCross ==
    CrossReturned =>
        \A i \in 0..(IndN - 2) :
            ~(indOut.out.dMACDcross[i] /\ indOut.out.dMACDcross[i + 1])

\* a cross at day 1 followed by a day on which the line is back at or below
\* its signal
C28_Witness ==
    /\ CrossReturned
    /\ IndN = 3
    /\ indOut.out.dMACDcross[1] /\ ~indOut.out.dMACDcross[2]
    /\ fLe(indOut.out.dMACD[2], indOut.out.dMACDsig[2])

----------------------------------------------------------------------------
(* Properties of the volume-intensity gates *)

\* bar i has been evaluated by the loop
Evaluated(i) == i >= 1 /\ i < vsaI /\ ~Skipped(vsaIn, i)

\* every volume of the series is a number >= 0
NonNegativeVolumes == \A k \in DOMAIN vsaIn.volume : vsaIn.volume[k] >= 0

\* C29: for every evaluated bar with non-negative volumes the high-volume
\* and the low-volume gate are never both true, also when the trailing mean
\* is 0; ultraHv implies hv and ultraLv implies lv; all four gates are false
\* while the mean is the sentinel.
C29_VolumeGatesConsistent ==
    (pc \in {"vsaLoop", "vsaReturned"} /\ NonNegativeVolumes) =>
        \A i \in 0..(VsaN - 1) :
            Evaluated(i) =>
                LET g == VolumeGates(vsaIn, i) IN
                /\ ~(g.hv /\ g.lv)
                /\ g.ultraHv => g.hv
                /\ g.ultraLv => g.lv
                /\ ~isFiniteR(g.ma) =>
                       ~(g.hv \/ g.lv \/ g.ultraHv \/ g.ultraLv)

\* the same statement for the bars whose trailing mean is not 0
C29_GatesConsistentPositiveMean ==
    (pc \in {"vsaLoop", "vsaReturned"} /\ NonNegativeVolumes) =>
        \A i \in 0..(VsaN - 1) :
            Evaluated(i) =>
                LET g == VolumeGates(vsaIn, i) IN
                /\ (isFiniteR(g.ma) /\ g.ma.num # 0) => ~(g.hv /\ g.lv)
                /\ g.ultraHv => g.hv
                /\ g.ultraLv => g.lv
                /\ ~isFiniteR(g.ma) =>
                       ~(g.hv \/ g.lv \/ g.ultraHv \/ g.ultraLv)

\* an evaluated bar of volume 0 whose trailing mean is 0: both gates hold
C29_ZeroMeanBothGates ==
    /\ pc = "vsaReturned" /\ NonNegativeVolumes
    /\ \E i \in 1..(VsaN - 1) :
          /\ Evaluated(i)
          /\ vsaIn.volume[i] = 0
          /\ VolumeGates(vsaIn, i).ma = Rat(0, 1)
          /\ VolumeGates(vsaIn, i).hv /\ VolumeGates(vsaIn, i).lv

----------------------------------------------------------------------------
(* Windowing (pan + zoom) and the buy scan over the visible slice:
   App.jsx 574-606.  Times in this part are whole hours: row timestamps, the
   cooldown and the day are all multiples of an hour, so every comparison is
   the one the code makes on milliseconds. *)

MaxWinRows == 5

DayHours == MS_PER_DAY \div MS_PER_HOUR

\* gaps between rows: 10 and 20 days
WinRowGaps == {10 * DayHours, 20 * DayHours}
\* the cooldown slider: 24 hours to 90 days in steps of 24 hours
WinBuyWindowHours == {24, 30 * 24}
\* the window sliders: days 30..1100 and offset 0..1100, in steps of 5
WindowDaysValues == {30, 35, 1100}
WindowOffsetValues == {0, 5, 10, 30}

WindowInit ==
    \E n \in 1..MaxWinRows :
      \E c \in [0..(n - 1) -> {0, 999}], g \in [1..(n - 1) -> WinRowGaps],
         h \in WinBuyWindowHours :
        /\ confidence = c
        /\ visTs = [k \in 0..(n - 1) |-> SumTo(g, k)]
        /\ threshold = 500
        /\ cooldownMs = h
        /\ scanI = 1
        /\ buys = << >>
        /\ lastBuyTs = NegInfinity
        /\ pc = "scan"
        /\ ScoreIdle /\ ResIdle /\ VsaIdle
        /\ IndIdle /\ AggIdle /\ WeightIdle /\ StackIdle

\* the scan of the whole series: the window that covers every row
SpecWindow == WindowInit /\ [][ScanNext]_vars

\* rows.findIndex(r => r.ts >= x), rows.findIndex(r => r.ts > x)
FindIndexGe(ts, x) ==
    LET S == {k \in DOMAIN ts : ts[k] >= x} IN
    IF S = {} THEN -1 ELSE CHOOSE k \in S : \A j \in S : k <= j
FindIndexGt(ts, x) ==
    LET S == {k \in DOMAIN ts : ts[k] > x} IN
    IF S = {} THEN -1 ELSE CHOOSE k \in S : \A j \in S : k <= j

Min2(a, b) == IF a <= b THEN a ELSE b

\* the slice [s, e) the window sliders select on rows with timestamps ts
Window(ts, windowDays, windowOffsetDays) ==
    LET n == ArrLen(ts)
        firstTs == ts[0]
        lastTs == ts[n - 1]
        maxSpanDays == Max2(1, (lastTs - firstTs) \div DayHours)
        wndDays == Min2(windowDays, maxSpanDays)
        offsetClamped == Min2(Max2(0, windowOffsetDays),
                              Max2(0, maxSpanDays - wndDays))
        startTs == Max2(firstTs, lastTs - (offsetClamped + wndDays) * DayHours)
        endTs == Min2(lastTs, startTs + wndDays * DayHours)
        startIdx == FindIndexGe(ts, startTs)
        endIdx == FindIndexGt(ts, endTs)
    IN  [s |-> IF startIdx >= 0 THEN startIdx ELSE 0,
         e |-> IF endIdx = -1 THEN n ELSE endIdx]

\* the buys loop over the slice that starts at row s, after local index i:
\* for (let i=1;i<n;i++){ ... if (cross && ts-lastBuyTs>=cooldownMs)
\*                              { buys.push({index:i, ts, ...}); lastBuyTs = ts } }
RECURSIVE scanSlice(_, _, _, _, _, _)
scanSlice(conf, ts, thr, cd, s, i) ==
    IF i < 1 THEN [buys |-> << >>, lastBuyTs |-> NegInfinity]
    ELSE LET st == scanSlice(conf, ts, thr, cd, s, i - 1) IN
         IF cross(conf, thr, s + i) /\ CooldownOk(ts[s + i], st.lastBuyTs, cd)
         THEN [buys |-> Append(st.buys, [index |-> i, ts |-> ts[s + i],
                                          conf |-> conf[s + i]]),
               lastBuyTs |-> ts[s + i]]
         ELSE st

\* the buys of the scan over the visible slice [s, e)
SliceBuys(s, e) ==
    scanSlice(confidence, visTs, threshold, cooldownMs, s, e - s - 1).buys

\* the rows of the series at which the scan over [s, e) emits an event
SliceEventRows(s, e) ==
    {s + SliceBuys(s, e)[k].index : k \in 1..Len(SliceBuys(s, e))}

\* the rows at which the scan over the whole series emits an event
FullEventRows == {buys[k].index : k \in 1..Len(buys)}

\* the loop written as a function gives the buys the scan actions give
ScanOfWholeSeries ==
    pc = "scanned" => SliceBuys(0, ScanN) = buys

\* C30: for a fixed threshold, cooldown and weights, the buy events of the
\* scan over a visible slice [s, e) are exactly the buy events of the scan
\* over the full series whose rows fall in [s, e).
C30_WindowIndependence ==
    pc = "scanned" =>
        \A wd \in WindowDaysValues, off \in WindowOffsetValues :
            LET w == Window(visTs, wd, off) IN
            SliceEventRows(w.s, w.e)
                = {r \in FullEventRows : w.s <= r /\ r < w.e}

\* a full-series event at the first visible row is lost by the slice scan
C30_EventLostAtWindowStart ==
    /\ pc = "scanned"
    /\ \E wd \in WindowDaysValues, off \in WindowOffsetValues :
          LET w == Window(visTs, wd, off) IN
          /\ w.s > 0 /\ w.s \in FullEventRows
          /\ w.s \notin SliceEventRows(w.s, w.e)

\* a row inside the cooldown of an event before the window gains an event
C30_EventGainedAfterWindowStart ==
    /\ pc = "scanned"
    /\ \E wd \in WindowDaysValues, off \in WindowOffsetValues :
          LET w == Window(visTs, wd, off) IN
          \E r \in SliceEventRows(w.s, w.e) : r \notin FullEventRows

====
